---- MODULE Spec2Model ----
(***************************************************************************)
(* A model of the scrypted router plugin: the collection of logical        *)
(* networks kept by Networks (src/src/networks.ts), the settings of a Vlan *)
(* (src/src/vlan.ts) and the compilation pass regenerateInterfaces with    *)
(* the firewall emitter of src/src/nftables.ts.                            *)
(*                                                                         *)
(* Strings built by template literals are modelled as token sequences:     *)
(* "eth0.2" is <<"eth0", 2>>, "10.0.1.1/24" is <<"10.0.1.1", 24>>, so that *)
(* concatenation and split('/') are computed, not assumed.  The JavaScript *)
(* value undefined is the empty sequence.                                  *)
(***************************************************************************)
EXTENDS Integers, Sequences, FiniteSets, TLC

VARIABLES
    vlans,               \* Networks.vlans: Map<nativeId, Vlan>, in insertion order
    portForwards,        \* the 'pf' child devices, in getNativeIds() order
    defaultInternet,     \* Networks.storageSettings.values.defaultInternet
    lastOp,              \* outcome of the last createDevice / putSetting / releaseDevice call
    pc,                  \* position of regenerateInterfaces: idle, loop, done, aborted
    idx,                 \* index in vlans of the next network of the per-network loop
    tablesStart,         \* regenerateInterfaces: let tablesStart
    tableMaps,           \* regenerateInterfaces: const tableMaps (Map, insertion order)
    dhclientPairs,       \* regenerateInterfaces: const dhclientPairs
    nftables,            \* regenerateInterfaces: const nftables (Set<string>, insertion order)
    netplan,             \* regenerateInterfaces: const netplan
    bringup,             \* regenerateInterfaces: const bringup (Set<Vlan>, insertion order)
    needParentInterfaces,\* regenerateInterfaces: const needParentInterfaces
    iteration,           \* what the last iteration of the per-network loop did
    files,               \* the artifacts on disk
    units,               \* nativeIds with a DHCP-server unit file installed
    prevPass,            \* tableMaps and nftables of the pass before the current one
    passes,              \* the calls of regenerateInterfaces so far, in start order
    revision,            \* how often the settings were edited
    disk,                \* per artifact file: the call that wrote it last, and its input
    lease,               \* the DHCP-hook triples and the routes the two hook scripts leave
    creating,            \* the createDevice calls waiting in onDeviceDiscovered
    dhcp                 \* first address and DHCP ranges of a network that serves DHCP

vars == <<vlans, portForwards, defaultInternet, lastOp, pc, idx, tablesStart, tableMaps,
          dhclientPairs, nftables, netplan, bringup, needParentInterfaces, iteration,
          files, units, prevPass, passes, revision, disk, lease, creating, dhcp>>

sideVars == <<lease, creating, dhcp>>

\* The state of the calls in flight.
triggerVars == <<passes, revision, disk>>

passVars == <<pc, idx, tablesStart, tableMaps, dhclientPairs, nftables, netplan, bringup,
              needParentInterfaces, iteration, files, units, prevPass>>

----------------------------------------------------------------------------
(* Bounds of the model. *)

\* At most this many networks are in the collection.
MaxNets == 2

\* VLAN IDs 0 (falsy: "missing"), 1 (the untagged default) and 2..MaxVlanId.
MaxVlanId == 2

\* At most this many calls of regenerateInterfaces are started.
MaxPasses == 2

\* At most this many edits of the settings are made.
MaxEdits == 1

\* At most this many port forwards exist.
MaxForwards == 2

\* At most this many DHCP-hook triples are in the list the scripts are made from.
MaxPairs == 2

\* networks.ts:889  vlanId > 4095 is rejected by createDevice
VlanIdLimit == 4095

----------------------------------------------------------------------------
(* Values. *)

Undefined == <<>>

NativeIds == 1..MaxNets

Parents == { <<"eth0">>, <<"eth1">> }

VlanIds == 0..MaxVlanId

Types == { "Network", "Internet" }

\* A JavaScript value handed to a parameter that the code compares with ===.
JsNumber(n) == [t |-> "number", n |-> n, s |-> Undefined]

JsString(s) == [t |-> "string", n |-> 0, s |-> s]

\* v === n for a number n: false for every string.
StrictEqualsNumber(v, n) == v.t = "number" /\ v.n = n

Range(s) == { s[i] : i \in DOMAIN s }

\* The index of the first element of s satisfying Test, 0 when there is none.
IndexOfNativeId(s, id) ==
    IF \E i \in DOMAIN s : s[i].nativeId = id
    THEN CHOOSE i \in DOMAIN s : s[i].nativeId = id /\ \A j \in 1..(i - 1) : s[j].nativeId # id
    ELSE 0

RemoveAt(s, i) == SubSeq(s, 1, i - 1) \o SubSeq(s, i + 1, Len(s))

----------------------------------------------------------------------------
(* interface-name.ts *)

ToStringTokens(p) == IF p = Undefined THEN <<"undefined">> ELSE p

getInterfaceName(parentInterface, vlanId) ==
    IF vlanId # 1
    THEN ToStringTokens(parentInterface) \o <<vlanId>>
    ELSE parentInterface

----------------------------------------------------------------------------
(* vlan.ts: the settings of a Vlan, as storageSettings.values reads them. *)

\* Vlan.updateInfo: an Internet-typed network has its gateway mode forced to Manual.
updateInfo(v) ==
    IF v.type = "Internet" THEN [v EXCEPT !.gatewayMode = "Manual"] ELSE v

\* new Vlan(networks, nativeId): nothing stored yet, so every setting reads its
\* default (vlanId 1, addressMode Manual, addresses []), then updateInfo().
NewVlan(nativeId, type) ==
    updateInfo([ nativeId        |-> nativeId,
                 type            |-> type,
                 parentInterface |-> Undefined,
                 vlanId          |-> 1,
                 addressMode     |-> "Manual",
                 addresses       |-> <<>>,
                 gatewayMode     |-> "",
                 internet        |-> Undefined,
                 gateway4        |-> Undefined,
                 gateway6        |-> Undefined,
                 dhcpServer      |-> "" ])

----------------------------------------------------------------------------
(* networks.ts: the collection of networks. *)

\* Networks.validateNetworkUnused: TRUE when it throws 'VLAN ID <n> already in use.'
\* vlanId is the JavaScript value the caller passes in that position.
validateNetworkUnused(vs, parentInterface, vlanId, allow) ==
    \E i \in DOMAIN vs :
        /\ parentInterface = vs[i].parentInterface
        /\ StrictEqualsNumber(vlanId, vs[i].vlanId)
        /\ vs[i].nativeId # allow

\* Vlan.storageSettings.vlanId.mapPut: TRUE when the put is rejected.
vlanIdMapPut(vs, i, nv) ==
    validateNetworkUnused(vs, vs[i].parentInterface, JsNumber(nv), vs[i].nativeId)

\* Vlan.storageSettings.parentInterface.mapPut: TRUE when the put is rejected.
\* The new parent interface nv is passed where validateNetworkUnused expects the
\* VLAN ID, next to the parent interface currently stored.
parentInterfaceMapPut(vs, i, nv) ==
    validateNetworkUnused(vs, vs[i].parentInterface, JsString(nv), vs[i].nativeId)

\* Whether another network than `self` holds the pair (parentInterface, vlanId).
PairTaken(vs, parentInterface, vlanId, self) ==
    \E i \in DOMAIN vs :
        /\ vs[i].nativeId # self
        /\ vs[i].parentInterface = parentInterface
        /\ vs[i].vlanId = vlanId

NoOp == [ op |-> "none", nativeId |-> 0, parentInterface |-> Undefined, vlanId |-> 0,
          collides |-> FALSE, error |-> "", committed |-> FALSE ]

Outcome(op, nativeId, parentInterface, vlanId, collides, error, after) ==
    [ op |-> op, nativeId |-> nativeId, parentInterface |-> parentInterface,
      vlanId |-> vlanId, collides |-> collides, error |-> error,
      committed |-> (after # vlans) ]

\* Networks.createDevice, for calls that do not overlap.  The nativeId is drawn
\* among the unused ones (the code draws 16 random bits).
createDevice(nativeId, type, settingsParent, settingsVlanId) ==
    LET vlanId == IF settingsVlanId = 0 THEN 1 ELSE settingsVlanId
        collides == PairTaken(vlans, settingsParent, vlanId, 0)
        created == Append(vlans, NewVlan(nativeId, type))
        n == Len(created)
        withVlanId == [created EXCEPT ![n].vlanId = vlanId]
        withParent == [withVlanId EXCEPT ![n].parentInterface = settingsParent]
        result ==
            IF settingsParent = Undefined
            THEN [error |-> "Network Interface is required.", after |-> vlans]
            ELSE IF vlanId < 1 \/ vlanId > VlanIdLimit
            THEN [error |-> "Invalid VLAN ID", after |-> vlans]
            ELSE IF validateNetworkUnused(vlans, settingsParent, JsNumber(vlanId), 0)
            THEN [error |-> "VLAN ID already in use.", after |-> vlans]
            ELSE IF vlanIdMapPut(created, n, vlanId)
            THEN [error |-> "VLAN ID already in use.", after |-> created]
            ELSE IF parentInterfaceMapPut(withVlanId, n, settingsParent)
            THEN [error |-> "VLAN ID already in use.", after |-> withVlanId]
            ELSE [error |-> "", after |-> withParent]
    IN  /\ vlans' = result.after
        /\ lastOp' = Outcome("createDevice", nativeId, settingsParent, vlanId, collides,
                             result.error, result.after)

CreateDevice ==
    /\ pc = "idle"
    /\ Len(vlans) < MaxNets
    /\ \E nativeId \in NativeIds \ { vlans[i].nativeId : i \in DOMAIN vlans },
          type \in Types,
          settingsParent \in Parents \cup {Undefined},
          settingsVlanId \in VlanIds \cup {VlanIdLimit + 1} :
            createDevice(nativeId, type, settingsParent, settingsVlanId)
    /\ UNCHANGED <<portForwards, defaultInternet, passVars>>
    /\ UNCHANGED triggerVars
    /\ UNCHANGED sideVars

\* Vlan.putSetting('vlanId', nv): mapPut validates, the value is stored, updateInfo().
PutVlanId ==
    /\ pc = "idle"
    /\ \E i \in DOMAIN vlans, nv \in VlanIds :
        LET rejected == vlanIdMapPut(vlans, i, nv)
            after == IF rejected THEN vlans
                     ELSE [vlans EXCEPT ![i] = updateInfo([@ EXCEPT !.vlanId = nv])]
        IN  /\ vlans' = after
            /\ lastOp' = Outcome("putVlanId", vlans[i].nativeId, vlans[i].parentInterface, nv,
                                 PairTaken(vlans, vlans[i].parentInterface, nv, vlans[i].nativeId),
                                 IF rejected THEN "VLAN ID already in use." ELSE "", after)
    /\ UNCHANGED <<portForwards, defaultInternet, passVars>>
    /\ UNCHANGED triggerVars
    /\ UNCHANGED sideVars

\* Vlan.putSetting('parentInterface', nv), nv one of the setting's choices.
PutParentInterface ==
    /\ pc = "idle"
    /\ \E i \in DOMAIN vlans, nv \in Parents :
        LET rejected == parentInterfaceMapPut(vlans, i, nv)
            after == IF rejected THEN vlans
                     ELSE [vlans EXCEPT ![i] = updateInfo([@ EXCEPT !.parentInterface = nv])]
        IN  /\ vlans' = after
            /\ lastOp' = Outcome("putParentInterface", vlans[i].nativeId, nv, vlans[i].vlanId,
                                 PairTaken(vlans, nv, vlans[i].vlanId, vlans[i].nativeId),
                                 IF rejected THEN "VLAN ID already in use." ELSE "", after)
    /\ UNCHANGED <<portForwards, defaultInternet, passVars>>
    /\ UNCHANGED triggerVars
    /\ UNCHANGED sideVars

\* Networks.releaseDevice, once the device is gone from the system: the network
\* leaves the collection and its DHCP-server unit is removed
\* (initializeNetworkInterface with parentInterface undefined).
ReleaseDevice ==
    /\ pc = "idle"
    /\ \E i \in DOMAIN vlans :
        /\ vlans' = RemoveAt(vlans, i)
        /\ units' = units \ { vlans[i].nativeId }
        /\ lastOp' = Outcome("releaseDevice", vlans[i].nativeId, Undefined, vlans[i].vlanId,
                             FALSE, "", RemoveAt(vlans, i))
    /\ UNCHANGED <<portForwards, defaultInternet, pc, idx, tablesStart, tableMaps,
                   dhclientPairs, nftables, netplan, bringup, needParentInterfaces,
                   iteration, files, prevPass>>
    /\ UNCHANGED triggerVars
    /\ UNCHANGED sideVars

----------------------------------------------------------------------------
(* JavaScript Map / object with string keys: entries in insertion order. *)

MapHas(m, key) == \E i \in DOMAIN m : m[i].key = key

MapIndex(m, key) == CHOOSE i \in DOMAIN m : m[i].key = key

\* Map.set: a known key keeps its place, a new key goes last.
MapSet(m, key, value) ==
    IF MapHas(m, key)
    THEN [m EXCEPT ![MapIndex(m, key)].value = value]
    ELSE Append(m, [key |-> key, value |-> value])

MapKeys(m) == { m[i].key : i \in DOMAIN m }

\* Set.add on an insertion-ordered Set: a known element is not added again.
SetAdd(s, x) == IF x \in Range(s) THEN s ELSE Append(s, x)

RECURSIVE SetAddAll(_, _)
SetAddAll(s, xs) ==
    IF xs = <<>> THEN s ELSE SetAddAll(SetAdd(s, Head(xs)), Tail(xs))

RECURSIVE Flatten(_)
Flatten(ss) == IF ss = <<>> THEN <<>> ELSE Head(ss) \o Flatten(Tail(ss))

RECURSIVE SelectSeqOf(_, _)
SelectSeqOf(s, keep) ==
    IF s = <<>> THEN <<>>
    ELSE (IF Head(s) \in keep THEN <<Head(s)>> ELSE <<>>) \o SelectSeqOf(Tail(s), keep)

----------------------------------------------------------------------------
(* networks.ts, regenerateInterfaces: the routing-table allocator. *)

\* networks.ts:495  let tablesStart = 100
TablesStartInit == 100

\* tableMaps.get(interfaceName), with undefined read as 0: the code only tests
\* the result for truthiness.
TableGet(m, interfaceName) ==
    IF MapHas(m, interfaceName) THEN m[MapIndex(m, interfaceName)].value ELSE 0

\* An allocator that hands out ++tablesStart where the code hands out
\* tablesStart++: the first id would be 101.
ensureTablePreIncrement(tb, interfaceName) ==
    LET table == TableGet(tb.tableMaps, interfaceName)
    IN  IF table = 0
        THEN [ tablesStart |-> tb.tablesStart + 1,
               tableMaps   |-> MapSet(tb.tableMaps, interfaceName, tb.tablesStart + 1),
               table       |-> tb.tablesStart + 1 ]
        ELSE [ tablesStart |-> tb.tablesStart,
               tableMaps   |-> tb.tableMaps,
               table       |-> table ]

\* An allocator without the tableMaps.get lookup: every call takes a new id.
ensureTableNoLookup(tb, interfaceName) ==
    [ tablesStart |-> tb.tablesStart + 1,
      tableMaps   |-> MapSet(tb.tableMaps, interfaceName, tb.tablesStart),
      table       |-> tb.tablesStart ]

\* const ensureTable = (interfaceName) => ...; tb is [tablesStart, tableMaps] and
\* the result carries the table returned.
ensureTable(tb, interfaceName) ==
    LET table == TableGet(tb.tableMaps, interfaceName)
    IN  IF table = 0
        THEN [ tablesStart |-> tb.tablesStart + 1,
               tableMaps   |-> MapSet(tb.tableMaps, interfaceName, tb.tablesStart),
               table       |-> tb.tablesStart ]
        ELSE [ tablesStart |-> tb.tablesStart,
               tableMaps   |-> tb.tableMaps,
               table       |-> table ]

----------------------------------------------------------------------------
(* Addresses.  An address "ip/prefix" is <<ip, prefix>>, the bare ip is <<ip>>. *)

Ip(fam, host) == [fam |-> fam, host |-> host]

\* address.split('/')[0]
BareIp(address) == <<address[1]>>

\* net.isIPv4(ip), net.isIPv6(ip) on a bare ip
isIPv4(ip) == ip # <<>> /\ ip[1].fam = 4

isIPv6(ip) == ip # <<>> /\ ip[1].fam = 6

ipv4Default == <<Ip(4, 0), 0>>

ipv6Default == <<Ip(6, 0), 0>>

----------------------------------------------------------------------------
(* netplan.ts shapes: Route, RoutingPolicy and the interface stanza.  A field *)
(* the code leaves out is Undefined (table: <<>>, type and scope: "").        *)

Route(to, via, from, table, type, scope) ==
    [ to |-> to, via |-> via, from |-> from, table |-> table, type |-> type,
      scope |-> scope ]

RoutingPolicy(from, to, table, priority) ==
    [ from |-> from, to |-> to, table |-> <<table>>, priority |-> priority ]

BlackholeDefault(table) == Route(ipv4Default, Undefined, Undefined, <<table>>, "blackhole", "")

LinkRoute(address, table) == Route(address, Undefined, Undefined, <<table>>, "", "link")

ViaRoute(ip, to, via, table) == Route(to, via, ip, <<table>>, "", "")

MainDefaultRoute(to, via) == Route(to, via, Undefined, Undefined, "", "")

----------------------------------------------------------------------------
(* nftables.ts: the fragments added to the nftables Set.  A fragment is the   *)
(* template's text: its table, its chain and its rules, each rule a record of *)
(* the words the template puts in it.                                         *)

Rule(iif, oif, match, daddr, proto, dport, verdict, to) ==
    [ iif |-> iif, oif |-> oif, match |-> match, daddr |-> daddr, proto |-> proto,
      dport |-> dport, verdict |-> verdict, to |-> to ]

Fragment(layout, family, table, chain, rules) ==
    [ layout |-> layout, family |-> family, table |-> table, chain |-> chain,
      rules |-> rules ]

FlushFragment ==
    [ layout |-> "flush", family |-> "", table |-> "", chain |-> "",
      rules |-> << <<"ip", "nat", "postrouting_scrypted">>,
                   <<"ip6", "nat", "postrouting_scrypted">>,
                   <<"ip", "filter", "forward_scrypted">>,
                   <<"ip6", "filter", "forward_scrypted">>,
                   <<"ip", "nat", "prerouting_scrypted">>,
                   <<"ip6", "nat", "prerouting_scrypted">> >> ]

\* A flush block that leaves out the prerouting chains.
flushChainsNoPrerouting(nft) ==
    SetAdd(nft, [ FlushFragment EXCEPT !.rules = SubSeq(@, 1, 4) ])

flushChains(nft) == SetAdd(nft, FlushFragment)

MasqueradeFragment(ip, wanInterface) ==
    Fragment("table", ip, "nat", "postrouting_scrypted",
             << Rule(Undefined, wanInterface, "", Undefined, "", "", "masquerade", Undefined) >>)

addMasquerade(nft, ip, wanInterface) == SetAdd(nft, MasqueradeFragment(ip, wanInterface))

\* A forward fragment that accepts wan -> lan without the connection-state match.
WanGatewayFragmentOpen(ip, wanInterface, lanInterface) ==
    Fragment("table", ip, "filter", "forward_scrypted",
             << Rule(lanInterface, wanInterface, "", Undefined, "", "", "accept", Undefined),
                Rule(wanInterface, lanInterface, "", Undefined, "", "", "accept", Undefined) >>)

WanGatewayFragment(ip, wanInterface, lanInterface) ==
    Fragment("table", ip, "filter", "forward_scrypted",
             << Rule(lanInterface, wanInterface, "", Undefined, "", "", "accept", Undefined),
                Rule(wanInterface, lanInterface, "ct state established,related", Undefined,
                     "", "", "accept", Undefined) >>)

addWanGateway(nft, ip, wanInterface, lanInterface) ==
    SetAdd(addMasquerade(nft, ip, wanInterface), WanGatewayFragment(ip, wanInterface, lanInterface))

\* The protocol word put in the rule as it is stored.
actualProtoStored(protocol) == protocol

actualProto(protocol) ==
    IF protocol = "tcp + udp" THEN "meta l4proto { tcp, udp } th" ELSE protocol

ForwardFragment(ip, wanInterface, protocol, dstIp, dstPort) ==
    Fragment("table", ip, "filter", "forward_scrypted",
             << Rule(wanInterface, Undefined, "ip daddr", dstIp, actualProto(protocol),
                     dstPort, "accept", Undefined) >>)

PreroutingFragment(ip, wanInterface, protocol, srcPort, dstIp, dstPort) ==
    Fragment("table", ip, "nat", "prerouting_scrypted",
             << Rule(wanInterface, Undefined, "", Undefined, actualProto(protocol),
                     srcPort, "dnat", <<dstIp, dstPort>>) >>)

HairpinForwardFragment(ip, lanInterface, protocol, dstIp, dstPort) ==
    Fragment("indented table", ip, "filter", "forward_scrypted",
             << Rule(lanInterface, Undefined, "ip daddr", dstIp, actualProto(protocol),
                     dstPort, "accept", Undefined),
                Rule(lanInterface, lanInterface, "ct state established,related", Undefined,
                     "", "", "accept", Undefined) >>)

HairpinPreroutingFragment(ip, lanInterface, wanIp, protocol, srcPort, dstIp, dstPort) ==
    Fragment("table", ip, "nat", "prerouting_scrypted",
             << Rule(lanInterface, Undefined, "ip daddr", wanIp, actualProto(protocol),
                     srcPort, "dnat", <<dstIp, dstPort>>) >>)

\* The fragments the inner loop adds for one (wanIp, lanInterface).
HairpinFragments(ip, lanInterface, wanIp, protocol, srcPort, dstIp, dstPort) ==
    << MasqueradeFragment(ip, lanInterface),
       HairpinForwardFragment(ip, lanInterface, protocol, dstIp, dstPort),
       HairpinPreroutingFragment(ip, lanInterface, wanIp, protocol, srcPort, dstIp, dstPort) >>

\* addPortForward as regenerateInterfaces calls it, with the WAN's IPv4 addresses.
addPortForward(nft, ip, wanInterface, wanIps, lanInterfaces, protocol, srcPort, dstIp, dstPort) ==
    LET base == << MasqueradeFragment(ip, wanInterface),
                   ForwardFragment(ip, wanInterface, protocol, dstIp, dstPort),
                   PreroutingFragment(ip, wanInterface, protocol, srcPort, dstIp, dstPort) >>
        hairpin == Flatten([w \in DOMAIN wanIps |->
                      Flatten([l \in DOMAIN lanInterfaces |->
                          HairpinFragments(ip, lanInterfaces[l], wanIps[w], protocol,
                                           srcPort, dstIp, dstPort)])])
    IN  SetAddAll(nft, base \o hairpin)

----------------------------------------------------------------------------
(* networks.ts, regenerateInterfaces: one iteration of the per-network loop. *)

\* A lookup that takes the first network of the collection, whatever its name.
FindFirstVlan(internet) == IF vlans = <<>> THEN 0 ELSE 1

\* [...this.vlans.values()].find(v => getInterfaceName(...) === internet): the index
\* of the first match, 0 when there is none.
FindInternetVlan(internet) ==
    LET hits == { i \in DOMAIN vlans :
                    getInterfaceName(vlans[i].parentInterface, vlans[i].vlanId) = internet }
    IN  IF hits = {} THEN 0 ELSE CHOOSE i \in hits : \A j \in hits : i <= j

\* A port forward with all four of srcPort, dstIp, dstPort and protocol set.
PortForwardComplete(pf) ==
    pf.srcPort # "" /\ pf.dstIp # Undefined /\ pf.dstPort # "" /\ pf.protocol # ""

\* The networks whose gateway is the interface interfaceName, in collection order.
LocalNetworksOf(interfaceName) ==
    SelectSeqOf(vlans, { v \in Range(vlans) :
                           v.gatewayMode = "Local Interface" /\ v.internet = interfaceName })

\* The inner loop over this.vlans of the port-forward loop: the hairpin policy
\* rules, with the tables it allocates.  acc is [tb, routingPolicy].
RECURSIVE HairpinPolicy(_, _)
HairpinPolicy(acc, lans) ==
    IF lans = <<>> THEN acc
    ELSE LET v == Head(lans)
             t == ensureTable(acc.tb, getInterfaceName(v.parentInterface, v.vlanId))
         IN  IF v.addressMode = "Manual"
             THEN HairpinPolicy(
                    [ tb |-> t,
                      routingPolicy |-> acc.routingPolicy \o
                          [k \in DOMAIN v.addresses |->
                              RoutingPolicy(v.addresses[k], Undefined, t.table, 1)] ],
                    Tail(lans))
             ELSE HairpinPolicy(acc, Tail(lans))

\* The loop over the 'pf' devices of one network.  acc is [tb, routingPolicy,
\* nftables, warnings].
RECURSIVE PortForwardLoop(_, _, _, _)
PortForwardLoop(acc, pfs, interfaceName, ipv4Addresses) ==
    IF pfs = <<>> THEN acc
    ELSE LET pf == Head(pfs)
             lans == LocalNetworksOf(interfaceName)
             lanInterfaces == SetAddAll(<<>>,
                 [l \in DOMAIN lans |-> getInterfaceName(lans[l].parentInterface, lans[l].vlanId)])
             hp == HairpinPolicy([tb |-> acc.tb, routingPolicy |-> acc.routingPolicy], lans)
         IN  IF ~PortForwardComplete(pf)
             THEN PortForwardLoop([acc EXCEPT !.warnings = @ \cup {"Port forward is incomplete."}],
                                  Tail(pfs), interfaceName, ipv4Addresses)
             ELSE PortForwardLoop(
                    [ tb |-> hp.tb,
                      routingPolicy |-> hp.routingPolicy,
                      nftables |-> addPortForward(acc.nftables, "ip", interfaceName, ipv4Addresses,
                                                  lanInterfaces, pf.protocol, pf.srcPort,
                                                  pf.dstIp, pf.dstPort),
                      warnings |-> acc.warnings ],
                    Tail(pfs), interfaceName, ipv4Addresses)

\* The routes one address gets from a gateway: via gateway4 for an IPv4 address,
\* else via gateway6 for an IPv6 address; with the main-table default route when
\* the network is the default internet.
\* Routes for the IPv4 addresses only.
GatewayRoutesIPv4Only(address, gateway4, gateway6, table, isDefaultInternet) ==
    LET ip == BareIp(address)
    IN  IF isIPv4(ip) /\ gateway4 # Undefined
        THEN <<ViaRoute(ip, ipv4Default, gateway4, table)>>
             \o (IF isDefaultInternet THEN <<MainDefaultRoute(ipv4Default, gateway4)>> ELSE <<>>)
        ELSE <<>>

GatewayRoutes(address, gateway4, gateway6, table, isDefaultInternet) ==
    LET ip == BareIp(address)
    IN  IF isIPv4(ip) /\ gateway4 # Undefined
        THEN <<ViaRoute(ip, ipv4Default, gateway4, table)>>
             \o (IF isDefaultInternet THEN <<MainDefaultRoute(ipv4Default, gateway4)>> ELSE <<>>)
        ELSE IF isIPv6(ip) /\ gateway6 # Undefined
        THEN <<ViaRoute(ip, ipv6Default, gateway6, table)>>
             \o (IF isDefaultInternet THEN <<MainDefaultRoute(ipv6Default, gateway6)>> ELSE <<>>)
        ELSE <<>>

\* this.storageSettings.values.defaultInternet.id is read for an address that gets
\* a manual gateway route.
ReadsDefaultInternet(addresses, gateway4, gateway6) ==
    \E k \in DOMAIN addresses :
        \/ isIPv4(BareIp(addresses[k])) /\ gateway4 # Undefined
        \/ isIPv6(BareIp(addresses[k])) /\ gateway6 # Undefined

\* A gateway4 / gateway6 read that skips the gatewayMode test.
StoredGateway(gatewayMode, gateway) == gateway

\* if (gatewayMode !== 'Manual') { gateway4 = undefined; gateway6 = undefined; }
EffectiveGateway(gatewayMode, gateway) ==
    IF gatewayMode # "Manual" THEN Undefined ELSE gateway

\* One iteration of `for (const vlan of this.vlans.values())`, from the state the
\* pass is in: what it decides and what it leaves in the pass's locals.
Iterate(vlan) ==
    LET vlanId == vlan.vlanId
        parentInterface == vlan.parentInterface
        gateway4 == EffectiveGateway(vlan.gatewayMode, vlan.gateway4)
        gateway6 == EffectiveGateway(vlan.gatewayMode, vlan.gateway6)
        dhcpClient == vlan.addressMode = "Auto"
        interfaceName == getInterfaceName(parentInterface, vlanId)
        tb0 == [tablesStart |-> tablesStart, tableMaps |-> tableMaps]
        t1 == ensureTable(tb0, interfaceName)
        table == t1.table
        linkRoutes == [k \in DOMAIN vlan.addresses |-> LinkRoute(vlan.addresses[k], table)]
        \* addresses.splice(0, addresses.length) for a DHCP client
        addresses == IF dhcpClient THEN <<>> ELSE vlan.addresses
        priority1 == Flatten([k \in DOMAIN addresses |->
                        << RoutingPolicy(BareIp(addresses[k]), Undefined, table, 1),
                           RoutingPolicy(Undefined, BareIp(addresses[k]), table, 1) >>])
        hasGateway == gateway4 # Undefined \/ gateway6 # Undefined
        lookup == ~dhcpClient /\ vlan.gatewayMode # "Disabled" /\ ~hasGateway
        internetIdx == IF lookup THEN FindInternetVlan(vlan.internet) ELSE 0
        resolved == internetIdx # 0
        internetVlan == vlans[internetIdx]
        t2 == IF resolved THEN ensureTable(t1, vlan.internet) ELSE t1
        internetTable == t2.table
        priority2 == IF resolved
                     THEN [k \in DOMAIN addresses |->
                             RoutingPolicy(IF vlan.dhcpServer = "Enabled" THEN addresses[k]
                                           ELSE BareIp(addresses[k]),
                                           Undefined, internetTable, 2)]
                     ELSE <<>>
        wanInterface == getInterfaceName(internetVlan.parentInterface, internetVlan.vlanId)
        nft1 == IF ~resolved THEN nftables
                ELSE LET ip4 == addWanGateway(nftables, "ip", wanInterface, interfaceName)
                     IN  IF vlan.vlanId # internetVlan.vlanId
                         THEN addWanGateway(ip4, "ip6", wanInterface, interfaceName)
                         ELSE ip4
        internetRoutes == IF resolved /\ internetVlan.addressMode # "Auto"
                          THEN Flatten([k \in DOMAIN addresses |->
                                  GatewayRoutes(addresses[k], internetVlan.gateway4,
                                                internetVlan.gateway6, table, FALSE)])
                          ELSE <<>>
        dh1 == IF resolved /\ internetVlan.addressMode = "Auto"
               THEN dhclientPairs \o [k \in DOMAIN addresses |->
                        [ wanInterface |-> wanInterface, fromIp |-> BareIp(addresses[k]),
                          table |-> internetTable ]]
               ELSE dhclientPairs
        manual == ~dhcpClient /\ hasGateway
        throws == manual /\ ReadsDefaultInternet(addresses, gateway4, gateway6)
                         /\ defaultInternet = 0
        manualRoutes == IF manual
                        THEN Flatten([k \in DOMAIN addresses |->
                                GatewayRoutes(addresses[k], gateway4, gateway6, table,
                                              defaultInternet = vlan.nativeId)])
                        ELSE <<>>
        routes == (IF resolved \/ manual THEN <<>> ELSE <<BlackholeDefault(table)>>)
                  \o linkRoutes \o internetRoutes \o manualRoutes
        ipv4Addresses == SelectSeqOf([k \in DOMAIN addresses |-> BareIp(addresses[k])],
                                     { BareIp(addresses[k]) : k \in { j \in DOMAIN addresses :
                                           isIPv4(BareIp(addresses[j])) } })
        pfl == PortForwardLoop(
                 [ tb |-> t2, routingPolicy |-> priority1 \o priority2, nftables |-> nft1,
                   warnings |->
                      (IF vlan.addresses = <<>> /\ ~dhcpClient
                       THEN {"Address is unconfigured."} ELSE {})
                      \cup (IF lookup /\ ~resolved
                            THEN {"Internet interface not found or is not managed directly."}
                            ELSE {}) ],
                 SelectSeqOf(portForwards,
                             { pf \in Range(portForwards) : pf.providerId = vlan.nativeId }),
                 interfaceName, ipv4Addresses)
        stanza == [ link |-> IF vlanId = 1 THEN Undefined ELSE parentInterface,
                    id |-> IF vlanId = 1 THEN 0 ELSE vlanId,
                    addresses |-> addresses,
                    optional |-> "true",
                    dhcp4 |-> IF dhcpClient THEN "true" ELSE "false",
                    dhcp6 |-> IF dhcpClient THEN "true" ELSE "false",
                    routes |-> routes,
                    routingPolicy |-> pfl.routingPolicy ]
    IN  IF vlanId = 0
        THEN [ outcome |-> "skipped", warnings |-> {"VLAN ID is required."} ]
        ELSE IF parentInterface = Undefined
        THEN [ outcome |-> "skipped", warnings |-> {"Parent Interface is required."} ]
        ELSE IF throws
        THEN [ outcome |-> "threw", warnings |-> {}, interfaceName |-> interfaceName,
               table |-> table, tb |-> t1 ]
        ELSE [ outcome |-> "emitted", warnings |-> pfl.warnings,
               interfaceName |-> interfaceName, table |-> table, tb |-> pfl.tb,
               resolved |-> resolved, internetIdx |-> internetIdx,
               internetTable |-> internetTable,
               nftables |-> pfl.nftables, dhclientPairs |-> dh1, stanza |-> stanza ]

----------------------------------------------------------------------------
(* The state before any pass has run. *)

NoIteration == [ nativeId |-> 0, outcome |-> "none", interfaceName |-> Undefined,
                 table |-> 0, routes |-> <<>>, routingPolicy |-> <<>>, warnings |-> {} ]

EmptyNetplan == [ ethernets |-> <<>>, vlans |-> <<>> ]

NoFiles == [ netplan |-> <<"unwritten">>, watcher |-> <<"unwritten">>,
             nftables |-> <<"unwritten">> ]

\* No call has written an artifact yet.
NoDisk == [ netplan |-> <<>>, watcher |-> <<>>, nftables |-> <<>> ]

\* No lease event yet, no createDevice call in flight, no DHCP server looked at.
NoLease == [ pairs |-> <<>>, watcher |-> <<>>, hook |-> <<>>, event |-> <<>> ]

NoDhcp == [ address |-> <<>>, ranges |-> <<>> ]

SideIdle ==
    /\ lease = NoLease
    /\ creating = {}
    /\ dhcp = NoDhcp

PassIdle ==
    /\ pc = "idle"
    /\ idx = 0
    /\ tablesStart = 0
    /\ tableMaps = <<>>
    /\ dhclientPairs = <<>>
    /\ nftables = <<>>
    /\ netplan = EmptyNetplan
    /\ bringup = <<>>
    /\ needParentInterfaces = <<>>
    /\ iteration = NoIteration
    /\ files = NoFiles
    /\ units = {}
    /\ prevPass = [ pc |-> "idle", tableMaps |-> <<>>, nftables |-> <<>> ]
    /\ passes = <<>>
    /\ revision = 0
    /\ disk = NoDisk
    /\ SideIdle

----------------------------------------------------------------------------
(* The life cycle of the collection: creations, edits of the pair, releases. *)

Init ==
    /\ vlans = <<>>
    /\ portForwards = <<>>
    /\ defaultInternet = 0
    /\ lastOp = NoOp
    /\ PassIdle

Next ==
    \/ CreateDevice
    \/ PutVlanId
    \/ PutParentInterface
    \/ ReleaseDevice

Spec == Init /\ [][Next]_vars

----------------------------------------------------------------------------
(* networks.ts, regenerateInterfaces: the pass, as steps over the collection. *)

\* A tablesStart that outlives the call (a field instead of a local): only the
\* first pass starts from 100.
StalePassTables ==
    IF pc = "idle" THEN [ tablesStart |-> TablesStartInit, tableMaps |-> <<>> ]
    ELSE [ tablesStart |-> tablesStart, tableMaps |-> <<>> ]

\* let tablesStart = 100; const tableMaps = new Map(): locals of each call.
PassTables == [ tablesStart |-> TablesStartInit, tableMaps |-> <<>> ]

\* A fragment collection that outlives the call and gets one more flush block
\* per pass.
StalePassNftables ==
    IF pc = "idle" THEN flushChains(<<>>) ELSE Append(nftables, FlushFragment)

\* const nftables = new Set<string>(); flushChains(nftables);
PassNftables == flushChains(<<>>)

\* The head of regenerateInterfaces, up to the per-network loop: fresh locals and
\* flushChains(nftables).  What the pass before left in its locals is remembered
\* in prevPass.
BeginPass ==
    /\ pc \in { "idle", "done", "aborted" }
    /\ prevPass' = [ pc |-> pc, tableMaps |-> tableMaps, nftables |-> nftables ]
    /\ tablesStart' = PassTables.tablesStart
    /\ tableMaps' = PassTables.tableMaps
    /\ dhclientPairs' = <<>>
    /\ nftables' = PassNftables
    /\ netplan' = EmptyNetplan
    /\ bringup' = <<>>
    /\ needParentInterfaces' = <<>>
    /\ iteration' = NoIteration
    /\ idx' = 1
    /\ pc' = "loop"
    /\ UNCHANGED <<vlans, portForwards, defaultInternet, lastOp, files, units>>
    /\ UNCHANGED triggerVars
    /\ UNCHANGED sideVars

\* An iteration that ends in `continue`: VLAN ID or parent interface missing.
SkipNetwork ==
    /\ pc = "loop"
    /\ idx <= Len(vlans)
    /\ LET it == Iterate(vlans[idx])
       IN  /\ it.outcome = "skipped"
           /\ iteration' = [ NoIteration EXCEPT !.nativeId = vlans[idx].nativeId,
                                                !.outcome = "skipped",
                                                !.warnings = it.warnings ]
    /\ idx' = idx + 1
    /\ UNCHANGED <<vlans, portForwards, defaultInternet, lastOp, pc, tablesStart, tableMaps,
                   dhclientPairs, nftables, netplan, bringup, needParentInterfaces,
                   files, units, prevPass>>
    /\ UNCHANGED triggerVars
    /\ UNCHANGED sideVars

\* An iteration that runs to the end of the loop body: the network's stanza is
\* in netplan, the network is in bringup.
CompileNetwork ==
    /\ pc = "loop"
    /\ idx <= Len(vlans)
    /\ LET vlan == vlans[idx]
           it == Iterate(vlan)
       IN  /\ it.outcome = "emitted"
           /\ tablesStart' = it.tb.tablesStart
           /\ tableMaps' = it.tb.tableMaps
           /\ dhclientPairs' = it.dhclientPairs
           /\ nftables' = it.nftables
           /\ bringup' = SetAdd(bringup, vlan.nativeId)
           /\ netplan' = IF vlan.vlanId = 1
                         THEN [netplan EXCEPT !.ethernets = MapSet(@, vlan.parentInterface, it.stanza)]
                         ELSE [netplan EXCEPT !.vlans = MapSet(@, it.interfaceName, it.stanza)]
           /\ needParentInterfaces' = IF vlan.vlanId = 1 THEN needParentInterfaces
                                      ELSE SetAdd(needParentInterfaces, vlan.parentInterface)
           /\ iteration' = [ nativeId |-> vlan.nativeId, outcome |-> "emitted",
                             interfaceName |-> it.interfaceName, table |-> it.table,
                             routes |-> it.stanza.routes,
                             routingPolicy |-> it.stanza.routingPolicy,
                             warnings |-> it.warnings ]
    /\ idx' = idx + 1
    /\ UNCHANGED <<vlans, portForwards, defaultInternet, lastOp, pc, files, units, prevPass>>
    /\ UNCHANGED triggerVars
    /\ UNCHANGED sideVars

\* An iteration that throws: this.storageSettings.values.defaultInternet is
\* undefined where its id is read.  regenerateInterfaces rejects; nothing after
\* the throw runs.
AbortPass ==
    /\ pc = "loop"
    /\ idx <= Len(vlans)
    /\ LET it == Iterate(vlans[idx])
       IN  /\ it.outcome = "threw"
           /\ tablesStart' = it.tb.tablesStart
           /\ tableMaps' = it.tb.tableMaps
           /\ iteration' = [ NoIteration EXCEPT !.nativeId = vlans[idx].nativeId,
                                                !.outcome = "threw",
                                                !.interfaceName = it.interfaceName,
                                                !.table = it.table ]
    /\ pc' = "aborted"
    /\ UNCHANGED <<vlans, portForwards, defaultInternet, lastOp, idx, dhclientPairs, nftables,
                   netplan, bringup, needParentInterfaces, files, units, prevPass>>
    /\ UNCHANGED triggerVars
    /\ UNCHANGED sideVars

\* for (const parentInterface of needParentInterfaces): a parent without a stanza
\* of its own gets { optional: true }.
RECURSIVE CompleteParents(_, _)
CompleteParents(ethernets, parents) ==
    IF parents = <<>> THEN ethernets
    ELSE CompleteParents(
            IF MapHas(ethernets, Head(parents)) THEN ethernets
            ELSE MapSet(ethernets, Head(parents), [ optional |-> "true" ]),
            Tail(parents))

\* dchp-watcher.ts, createDhcpWatcher: the script is determined by the pairs and
\* the deduplicated list of their WAN interfaces.
createDhcpWatcher(pairs) ==
    [ interfaces |-> SetAddAll(<<>>, [k \in DOMAIN pairs |-> pairs[k].wanInterface]),
      pairs |-> pairs ]

\* vlan.ts, initializeNetworkInterface: TRUE when it installs the DHCP-server unit
\* of the network, FALSE when it removes it.  dhcpRanges is unset, so the ranges
\* are the defaults, which exist only for a dotted-quad first address.
InstallsDhcpUnit(v) ==
    /\ v.parentInterface # Undefined
    /\ v.addressMode # "Auto"
    /\ v.dhcpServer = "Enabled"
    /\ v.addresses # <<>>
    /\ isIPv4(BareIp(v.addresses[1]))

\* The tail of regenerateInterfaces: parent completion, the three writes, netplan
\* apply, the bring-up loop, the watcher restart and the firewall load.
FinishPass ==
    /\ pc = "loop"
    /\ idx > Len(vlans)
    /\ LET completed == [netplan EXCEPT !.ethernets = CompleteParents(@, needParentInterfaces)]
           up == { vlans[i] : i \in { j \in DOMAIN vlans : vlans[j].nativeId \in Range(bringup) } }
       IN  /\ netplan' = completed
           /\ files' = [ netplan |-> <<completed>>,
                         watcher |-> <<createDhcpWatcher(dhclientPairs)>>,
                         nftables |-> <<nftables>> ]
           /\ units' = (units \ { v.nativeId : v \in up })
                         \cup { v.nativeId : v \in { w \in up : InstallsDhcpUnit(w) } }
    /\ pc' = "done"
    /\ UNCHANGED <<vlans, portForwards, defaultInternet, lastOp, idx, tablesStart, tableMaps,
                   dhclientPairs, nftables, bringup, needParentInterfaces, iteration, prevPass>>
    /\ UNCHANGED triggerVars
    /\ UNCHANGED sideVars

----------------------------------------------------------------------------
(* The configurations the pass is run on. *)

\* Sample addresses and gateways.
Address4(n) == <<Ip(4, n), 24>>

Address6(n) == <<Ip(6, n), 64>>

Gateway4 == <<Ip(4, 254)>>

Gateway6 == <<Ip(6, 254)>>

\* The (parentInterface, vlanId) pairs: untagged, tagged, VLAN ID missing, parent
\* interface missing.
PassPairs ==
    { <<(<<"eth0">>), 1>>, <<(<<"eth0">>), MaxVlanId>>, <<(<<"eth0">>), 0>>, <<Undefined, 1>> }

\* The settings of a network besides its pair.
PassBehaviours(n) ==
    { \* nothing configured yet
      NewVlan(n, "Network"),
      \* an uplink that is a DHCP client
      updateInfo([NewVlan(n, "Internet") EXCEPT !.addressMode = "Auto"]),
      \* an uplink with static addresses and gateways
      updateInfo([NewVlan(n, "Internet") EXCEPT !.addresses = <<Address4(n), Address6(n)>>,
                                                !.gateway4 = Gateway4, !.gateway6 = Gateway6]),
      \* a LAN behind the untagged uplink, serving DHCP
      [NewVlan(n, "Network") EXCEPT !.addresses = <<Address4(n), Address6(n)>>,
                                    !.gatewayMode = "Local Interface",
                                    !.internet = <<"eth0">>, !.dhcpServer = "Enabled"],
      \* a LAN behind the tagged uplink
      [NewVlan(n, "Network") EXCEPT !.addresses = <<Address4(n)>>,
                                    !.gatewayMode = "Local Interface",
                                    !.internet = <<"eth0", MaxVlanId>>],
      \* an isolated network
      [NewVlan(n, "Network") EXCEPT !.addresses = <<Address4(n), Address6(n)>>,
                                    !.gatewayMode = "Disabled"],
      \* an isolated network; gateway4 is a leftover of an earlier Manual gateway
      [NewVlan(n, "Network") EXCEPT !.addresses = <<Address4(n)>>,
                                    !.gatewayMode = "Disabled", !.gateway4 = Gateway4] }

\* A LAN on a second physical interface, untagged like the uplink on eth0.
SecondInterfaceLan(n) ==
    [NewVlan(n, "Network") EXCEPT !.parentInterface = <<"eth1">>,
                                  !.addresses = <<Address4(n), Address6(n)>>,
                                  !.gatewayMode = "Local Interface",
                                  !.internet = <<"eth0">>]

\* A tagged LAN on the second interface switched from Local Interface to Manual:
\* the 'internet' setting is still stored and no gateway address is entered yet.
ManualWithoutGateway(n) ==
    [NewVlan(n, "Network") EXCEPT !.parentInterface = <<"eth1">>,
                                  !.vlanId = MaxVlanId,
                                  !.addresses = <<Address4(n)>>,
                                  !.gatewayMode = "Manual",
                                  !.internet = <<"eth0">>]

PassNetworks(n) ==
    { [b EXCEPT !.parentInterface = p[1], !.vlanId = p[2]] :
        b \in PassBehaviours(n), p \in PassPairs }
        \cup { SecondInterfaceLan(n), ManualWithoutGateway(n) }

\* Ordered collections of 1..MaxNets networks with distinct pairs.
PassCollections ==
    UNION { { c \in [1..n -> UNION { PassNetworks(k) : k \in 1..n }] :
                /\ \A i \in 1..n : c[i].nativeId = i
                /\ \A i, j \in 1..n :
                     i # j => <<c[i].parentInterface, c[i].vlanId>>
                                 # <<c[j].parentInterface, c[j].vlanId>> } :
            n \in 1..MaxNets }

\* The ids the Default Internet setting offers: the Internet-typed networks.
InternetIds(vs) == { vs[i].nativeId : i \in { j \in DOMAIN vs : vs[j].type = "Internet" } }

\* A port forward of network n: complete, switched to http(s) with the port
\* fields of an earlier tcp forward still stored, or with the destination unset.
PassPortForwards(n) ==
    { [ providerId |-> n, protocol |-> "tcp + udp", srcPort |-> "443",
        dstIp |-> <<Ip(4, 10)>>, dstPort |-> "8443" ],
      [ providerId |-> n, protocol |-> "http(s)", srcPort |-> "443",
        dstIp |-> <<Ip(4, 10)>>, dstPort |-> "8443" ],
      [ providerId |-> n, protocol |-> "tcp", srcPort |-> "443",
        dstIp |-> Undefined, dstPort |-> "" ] }

InitPass ==
    /\ vlans \in PassCollections
    /\ defaultInternet \in {0} \cup InternetIds(vlans)
    /\ portForwards \in {<<>>} \cup { <<pf>> : pf \in UNION { PassPortForwards(n) : n \in InternetIds(vlans) } }
    /\ lastOp = NoOp
    /\ PassIdle

NextPass ==
    \/ BeginPass
    \/ SkipNetwork
    \/ CompileNetwork
    \/ AbortPass
    \/ FinishPass

SpecPass == InitPass /\ [][NextPass]_vars

----------------------------------------------------------------------------
(* Passes with settings edited between them, over collections that hold a   *)
(* network on top of a VLAN interface and gateways with several port        *)
(* forwards.                                                                *)

\* The networks of these collections: a static uplink on eth0, a LAN tagged on
\* eth0 behind it that serves DHCP, a network whose parent interface is the VLAN
\* interface of that tag (the parent interface setting offers every interface of
\* the host but the network's own), and a network with nothing configured.
EditNetworks(n) ==
    { updateInfo([NewVlan(n, "Internet") EXCEPT !.parentInterface = <<"eth0">>,
                                                !.addresses = <<Address4(n)>>,
                                                !.gateway4 = Gateway4]),
      [NewVlan(n, "Network") EXCEPT !.parentInterface = <<"eth0">>,
                                    !.vlanId = MaxVlanId,
                                    !.addresses = <<Address4(n)>>,
                                    !.gatewayMode = "Local Interface",
                                    !.internet = <<"eth0">>,
                                    !.dhcpServer = "Enabled"],
      [NewVlan(n, "Network") EXCEPT !.parentInterface = <<"eth0", MaxVlanId>>,
                                    !.addresses = <<Address4(n)>>,
                                    !.gatewayMode = "Disabled"],
      NewVlan(n, "Network") }

EditCollections ==
    UNION { { c \in [1..n -> UNION { EditNetworks(k) : k \in 1..n }] :
                /\ \A i \in 1..n : c[i].nativeId = i
                /\ \A i, j \in 1..n :
                     i # j => <<c[i].parentInterface, c[i].vlanId>>
                                 # <<c[j].parentInterface, c[j].vlanId>> } :
            n \in 1..MaxNets }

\* The complete port forwards of network n.
EditPortForwards(n) ==
    { [ providerId |-> n, protocol |-> "tcp", srcPort |-> "80",
        dstIp |-> <<Ip(4, 10)>>, dstPort |-> "8080" ],
      [ providerId |-> n, protocol |-> "tcp + udp", srcPort |-> "443",
        dstIp |-> <<Ip(4, 10)>>, dstPort |-> "8443" ] }

InitEdits ==
    /\ vlans \in EditCollections
    /\ defaultInternet \in {0} \cup InternetIds(vlans)
    /\ portForwards \in UNION { [1..k -> UNION { EditPortForwards(n) : n \in InternetIds(vlans) }] :
                                 k \in 0..MaxForwards }
    /\ lastOp = NoOp
    /\ PassIdle

\* Vlan.putSetting('vlanId', 0) between two passes.
UnsetVlanId ==
    /\ pc \in { "done", "aborted" }
    /\ revision < MaxEdits
    /\ \E i \in DOMAIN vlans :
        LET rejected == vlanIdMapPut(vlans, i, 0)
            after == IF rejected THEN vlans
                     ELSE [vlans EXCEPT ![i] = updateInfo([@ EXCEPT !.vlanId = 0])]
        IN  /\ vlans[i].vlanId # 0
            /\ vlans' = after
            /\ lastOp' = Outcome("putVlanId", vlans[i].nativeId, vlans[i].parentInterface, 0,
                                 PairTaken(vlans, vlans[i].parentInterface, 0, vlans[i].nativeId),
                                 IF rejected THEN "VLAN ID already in use." ELSE "", after)
    /\ revision' = revision + 1
    /\ UNCHANGED <<portForwards, defaultInternet, passes, disk>>
    /\ UNCHANGED passVars
    /\ UNCHANGED sideVars

\* Vlan.putSetting('parentInterface', undefined) between two passes.
UnsetParentInterface ==
    /\ pc \in { "done", "aborted" }
    /\ revision < MaxEdits
    /\ \E i \in DOMAIN vlans :
        LET rejected == parentInterfaceMapPut(vlans, i, Undefined)
            after == IF rejected THEN vlans
                     ELSE [vlans EXCEPT ![i] = updateInfo([@ EXCEPT !.parentInterface = Undefined])]
        IN  /\ vlans[i].parentInterface # Undefined
            /\ vlans' = after
            /\ lastOp' = Outcome("putParentInterface", vlans[i].nativeId, Undefined,
                                 vlans[i].vlanId,
                                 PairTaken(vlans, Undefined, vlans[i].vlanId, vlans[i].nativeId),
                                 IF rejected THEN "VLAN ID already in use." ELSE "", after)
    /\ revision' = revision + 1
    /\ UNCHANGED <<portForwards, defaultInternet, passes, disk>>
    /\ UNCHANGED passVars
    /\ UNCHANGED sideVars

NextEdits ==
    \/ BeginPass
    \/ SkipNetwork
    \/ CompileNetwork
    \/ AbortPass
    \/ FinishPass
    \/ UnsetVlanId
    \/ UnsetParentInterface

SpecEdits == InitEdits /\ [][NextEdits]_vars

----------------------------------------------------------------------------
(* networks.ts, regenerateInterfaces as an async function: every call runs    *)
(* from its start to its first await in one turn, and from each await to the  *)
(* next in one turn; turns of different calls interleave.  The awaits of a    *)
(* call are the three writeFile calls, the three runCommand calls and the     *)
(* initializeNetworkInterface of each network of its bring-up set.  The       *)
(* writeFile calls are taken to succeed.                                      *)

\* The stage a call is at once the awaited step of `stage` has completed; brought
\* is the number of networks whose initializeNetworkInterface has completed and
\* n the size of the bring-up set.  A variant with the bring-up loop after the
\* firewall load comes first.
StageAfterBringUpLast(stage, brought, n) ==
    CASE stage = "writeNetplan"   -> "netplanApply"
      [] stage = "netplanApply"   -> "writeWatcher"
      [] stage = "writeWatcher"   -> "restartWatcher"
      [] stage = "restartWatcher" -> "writeNftables"
      [] stage = "writeNftables"  -> "loadNftables"
      [] stage = "loadNftables"   -> IF n = 0 THEN "finished" ELSE "bringUp"
      [] stage = "bringUp"        -> IF brought < n THEN "bringUp" ELSE "finished"

StageAfter(stage, brought, n) ==
    CASE stage = "writeNetplan"   -> "netplanApply"
      [] stage = "netplanApply"   -> IF n = 0 THEN "writeWatcher" ELSE "bringUp"
      [] stage = "bringUp"        -> IF brought < n THEN "bringUp" ELSE "writeWatcher"
      [] stage = "writeWatcher"   -> "restartWatcher"
      [] stage = "restartWatcher" -> "writeNftables"
      [] stage = "writeNftables"  -> "loadNftables"
      [] stage = "loadNftables"   -> "finished"

\* The bring-up set of a call: the networks the per-network loop does not skip.
BringupOf(vs) ==
    SelectSeqOf([i \in DOMAIN vs |-> vs[i].nativeId],
                { vs[i].nativeId : i \in { j \in DOMAIN vs :
                      vs[j].vlanId # 0 /\ vs[j].parentInterface # Undefined } })

\* A call from its start to its first await, the writeFile of the interface
\* document: flushChains, the per-network loop and the parent completion are done,
\* computed from the settings as they are now.
StartedPass ==
    [ stage |-> "writeNetplan",
      input |-> revision,
      set |-> BringupOf(vlans),
      brought |-> 0,
      failure |-> "none",
      steps |-> << "flushChains", "perNetwork", "parentCompletion" >> ]

\* The awaited step of call p completes and the call runs on to its next await.
Advance(p, nowBrought) ==
    [ passes EXCEPT ![p].stage = StageAfter(passes[p].stage, nowBrought, Len(passes[p].set)),
                    ![p].brought = nowBrought,
                    ![p].steps = Append(@, passes[p].stage) ]

\* What a call leaves in a file: itself and the settings it was computed from.
Written(p) == << [ pass |-> p, input |-> passes[p].input ] >>

\* vlan.ts, applyChanges.onPut: the 'Apply Changes' button of any network calls
\* regenerateInterfaces and does not wait for it.
ApplyChanges ==
    /\ Len(passes) < MaxPasses
    /\ passes' = Append(passes, StartedPass)
    /\ UNCHANGED <<revision, disk>>
    /\ UNCHANGED <<vlans, portForwards, defaultInternet, lastOp>>
    /\ UNCHANGED passVars
    /\ UNCHANGED sideVars

\* Vlan.putSetting: a setting is stored; nothing is compiled.
EditSetting ==
    /\ revision < MaxEdits
    /\ revision' = revision + 1
    /\ UNCHANGED <<passes, disk>>
    /\ UNCHANGED <<vlans, portForwards, defaultInternet, lastOp>>
    /\ UNCHANGED passVars
    /\ UNCHANGED sideVars

\* await fs.promises.writeFile('/etc/netplan/01-scrypted.yaml', ...)
WriteNetplan ==
    /\ \E p \in DOMAIN passes :
          /\ passes[p].stage = "writeNetplan"
          /\ disk' = [disk EXCEPT !.netplan = Written(p)]
          /\ passes' = Advance(p, passes[p].brought)
    /\ UNCHANGED <<revision, vlans, portForwards, defaultInternet, lastOp>>
    /\ UNCHANGED passVars
    /\ UNCHANGED sideVars

\* await runCommand(...): the command exits; its exit code is not looked at.
CommandExits(stage) ==
    /\ \E p \in DOMAIN passes, code \in { 0, 1 } :
          /\ passes[p].stage = stage
          /\ passes' = Advance(p, passes[p].brought)
    /\ UNCHANGED <<revision, disk, vlans, portForwards, defaultInternet, lastOp>>
    /\ UNCHANGED passVars
    /\ UNCHANGED sideVars

\* await runCommand('netplan', ['apply'], console)
NetplanApply == CommandExits("netplanApply")

\* await vlan.initializeNetworkInterface() for the next network of the bring-up
\* set: it resolves, with every command it ran exiting 0 or with one of them
\* exiting non-zero (not looked at), or it rejects (a writeFile, rm or spawn
\* fails), and then the call rejects.
BringUp ==
    /\ \E p \in DOMAIN passes, outcome \in { "ok", "exit", "threw" } :
          /\ passes[p].stage = "bringUp"
          /\ passes' =
                IF outcome = "threw"
                THEN [ passes EXCEPT ![p].stage = "rejected",
                                     ![p].failure = "threw",
                                     ![p].steps = Append(@, "bringUp") ]
                ELSE [ Advance(p, passes[p].brought + 1) EXCEPT
                          ![p].failure = IF outcome = "exit" THEN "exit" ELSE @ ]
    /\ UNCHANGED <<revision, disk, vlans, portForwards, defaultInternet, lastOp>>
    /\ UNCHANGED passVars
    /\ UNCHANGED sideVars

\* await fs.promises.writeFile('/etc/dhcp/scrypted-dhcp-watcher', ...)
WriteWatcher ==
    /\ \E p \in DOMAIN passes :
          /\ passes[p].stage = "writeWatcher"
          /\ disk' = [disk EXCEPT !.watcher = Written(p)]
          /\ passes' = Advance(p, passes[p].brought)
    /\ UNCHANGED <<revision, vlans, portForwards, defaultInternet, lastOp>>
    /\ UNCHANGED passVars
    /\ UNCHANGED sideVars

\* await runCommand('systemctl', ['restart', 'scrypted-dhcp-watcher'], console)
RestartWatcher == CommandExits("restartWatcher")

\* await fs.promises.writeFile('/etc/nftables.d/02-scrypted.conf', ...)
WriteNftables ==
    /\ \E p \in DOMAIN passes :
          /\ passes[p].stage = "writeNftables"
          /\ disk' = [disk EXCEPT !.nftables = Written(p)]
          /\ passes' = Advance(p, passes[p].brought)
    /\ UNCHANGED <<revision, vlans, portForwards, defaultInternet, lastOp>>
    /\ UNCHANGED passVars
    /\ UNCHANGED sideVars

\* await runCommand('nft', ['-f', '/etc/nftables.d/02-scrypted.conf'], console)
LoadNftables == CommandExits("loadNftables")

\* The collection the calls run on: an uplink on eth0 and a LAN tagged on it.
TriggerCollection ==
    << updateInfo([NewVlan(1, "Internet") EXCEPT !.parentInterface = <<"eth0">>,
                                                  !.addressMode = "Auto"]),
       [NewVlan(2, "Network") EXCEPT !.parentInterface = <<"eth0">>,
                                     !.vlanId = MaxVlanId,
                                     !.addresses = <<Address4(2)>>,
                                     !.gatewayMode = "Local Interface",
                                     !.internet = <<"eth0">>,
                                     !.dhcpServer = "Enabled"] >>

\* The Networks constructor has called regenerateInterfaces, without waiting for
\* it: the first call is at its first await.
InitTriggers ==
    /\ vlans = TriggerCollection
    /\ portForwards = <<>>
    /\ defaultInternet = 1
    /\ lastOp = NoOp
    /\ pc = "idle"
    /\ idx = 0
    /\ tablesStart = 0
    /\ tableMaps = <<>>
    /\ dhclientPairs = <<>>
    /\ nftables = <<>>
    /\ netplan = EmptyNetplan
    /\ bringup = <<>>
    /\ needParentInterfaces = <<>>
    /\ iteration = NoIteration
    /\ files = NoFiles
    /\ units = {}
    /\ prevPass = [ pc |-> "idle", tableMaps |-> <<>>, nftables |-> <<>> ]
    /\ revision = 0
    /\ disk = NoDisk
    /\ passes = << StartedPass >>
    /\ SideIdle

NextTriggers ==
    \/ ApplyChanges
    \/ EditSetting
    \/ WriteNetplan
    \/ NetplanApply
    \/ BringUp
    \/ WriteWatcher
    \/ RestartWatcher
    \/ WriteNftables
    \/ LoadNftables

SpecTriggers == InitTriggers /\ [][NextTriggers]_vars

----------------------------------------------------------------------------
(* networks.ts, createDevice as an async function: the part before          *)
(* `await sdk.deviceManager.onDeviceDiscovered(...)` runs in one turn, the  *)
(* part after it in a later turn; other calls run in between.               *)

\* createDevice up to the await: the settings are checked against the networks
\* that exist now.  The value is the error thrown, "" when the call goes on to
\* onDeviceDiscovered.
createDeviceCheck(settingsParent, vlanId) ==
    IF settingsParent = Undefined THEN "Network Interface is required."
    ELSE IF vlanId < 1 \/ vlanId > VlanIdLimit THEN "Invalid VLAN ID"
    ELSE IF validateNetworkUnused(vlans, settingsParent, JsNumber(vlanId), 0)
    THEN "VLAN ID already in use."
    ELSE ""

\* createDevice after the await: getDevice makes the Vlan and puts it in the
\* collection, then vlanId and parentInterface are stored through their mapPut.
createDeviceStore(call) ==
    LET created == Append(vlans, NewVlan(call.nativeId, call.type))
        n == Len(created)
        withVlanId == [created EXCEPT ![n].vlanId = call.vlanId]
        withParent == [withVlanId EXCEPT ![n].parentInterface = call.parentInterface]
    IN  IF vlanIdMapPut(created, n, call.vlanId)
        THEN [error |-> "VLAN ID already in use.", after |-> created]
        ELSE IF parentInterfaceMapPut(withVlanId, n, call.parentInterface)
        THEN [error |-> "VLAN ID already in use.", after |-> withVlanId]
        ELSE [error |-> "", after |-> withParent]

\* A createDevice call runs up to its await, or throws before it.
CreateDeviceCall ==
    /\ Len(vlans) + Cardinality(creating) < MaxNets
    /\ \E nativeId \in NativeIds \ ({ vlans[i].nativeId : i \in DOMAIN vlans }
                                       \cup { c.nativeId : c \in creating }),
          type \in Types,
          settingsParent \in Parents \cup {Undefined},
          settingsVlanId \in VlanIds \cup {VlanIdLimit + 1} :
            LET vlanId == IF settingsVlanId = 0 THEN 1 ELSE settingsVlanId
                error == createDeviceCheck(settingsParent, vlanId)
            IN  /\ creating' = IF error = ""
                               THEN creating \cup { [ nativeId |-> nativeId, type |-> type,
                                                      parentInterface |-> settingsParent,
                                                      vlanId |-> vlanId ] }
                               ELSE creating
                /\ lastOp' = IF error = "" THEN lastOp
                             ELSE Outcome("createDevice", nativeId, settingsParent, vlanId,
                                          PairTaken(vlans, settingsParent, vlanId, 0),
                                          error, vlans)
    /\ UNCHANGED <<vlans, portForwards, defaultInternet, lease, dhcp>>
    /\ UNCHANGED passVars
    /\ UNCHANGED triggerVars

\* onDeviceDiscovered resolves for one of the waiting calls, which runs to its end.
CreateDeviceResume ==
    /\ \E call \in creating :
          LET result == createDeviceStore(call)
          IN  /\ vlans' = result.after
              /\ lastOp' = Outcome("createDevice", call.nativeId, call.parentInterface,
                                   call.vlanId,
                                   PairTaken(vlans, call.parentInterface, call.vlanId, 0),
                                   result.error, result.after)
              /\ creating' = creating \ { call }
    /\ UNCHANGED <<portForwards, defaultInternet, lease, dhcp>>
    /\ UNCHANGED passVars
    /\ UNCHANGED triggerVars

InitOverlap ==
    /\ vlans = <<>>
    /\ portForwards = <<>>
    /\ defaultInternet = 0
    /\ lastOp = NoOp
    /\ PassIdle

NextOverlap ==
    \/ CreateDeviceCall
    \/ CreateDeviceResume

SpecOverlap == InitOverlap /\ [][NextOverlap]_vars

----------------------------------------------------------------------------
(* vlan.ts, initializeNetworkInterface: the DHCP ranges of a network that   *)
(* serves DHCP with no ranges configured.  The first address is a.b.c.d; a  *)
(* range is `${withoutEnd}.<start>,${withoutEnd}.<end>,12h`.                *)

\* The last host octet of every default range.
DefaultRangeEnd == 220

DhcpRange(withoutEnd, start, end) ==
    [ withoutEnd |-> withoutEnd, start |-> start, end |-> end, lease |-> "12h" ]

\* if (addressWithoutMask.endsWith('.1')) one range from .2, else one range below
\* the address and one above it.
DefaultDhcpRanges(withoutEnd, end) ==
    IF end = 1
    THEN << DhcpRange(withoutEnd, 2, DefaultRangeEnd) >>
    ELSE << DhcpRange(withoutEnd, 1, end - 1),
            DhcpRange(withoutEnd, end + 1, DefaultRangeEnd) >>

\* The first addresses looked at: 10.0.0.d for every octet d.
DhcpAddresses == { << <<10, 0, 0>>, d >> : d \in 0..255 }

\* initializeNetworkInterface of a network with dhcpServer 'Enabled', addressMode
\* 'Manual', the address stored and dhcpRanges unset.
ComputeDhcpRanges ==
    /\ dhcp.address # <<>>
    /\ dhcp.ranges = <<>>
    /\ dhcp' = [dhcp EXCEPT !.ranges = DefaultDhcpRanges(dhcp.address[1], dhcp.address[2])]
    /\ UNCHANGED <<vlans, portForwards, defaultInternet, lastOp, lease, creating>>
    /\ UNCHANGED passVars
    /\ UNCHANGED triggerVars

InitRanges ==
    /\ vlans = <<>>
    /\ portForwards = <<>>
    /\ defaultInternet = 0
    /\ lastOp = NoOp
    /\ pc = "idle"
    /\ idx = 0
    /\ tablesStart = 0
    /\ tableMaps = <<>>
    /\ dhclientPairs = <<>>
    /\ nftables = <<>>
    /\ netplan = EmptyNetplan
    /\ bringup = <<>>
    /\ needParentInterfaces = <<>>
    /\ iteration = NoIteration
    /\ files = NoFiles
    /\ units = {}
    /\ prevPass = [ pc |-> "idle", tableMaps |-> <<>>, nftables |-> <<>> ]
    /\ passes = <<>>
    /\ revision = 0
    /\ disk = NoDisk
    /\ lease = NoLease
    /\ creating = {}
    /\ \E a \in DhcpAddresses : dhcp = [ address |-> a, ranges |-> <<>> ]

NextRanges == ComputeDhcpRanges

SpecRanges == InitRanges /\ [][NextRanges]_vars

----------------------------------------------------------------------------
(* dchp-watcher.ts, createDhcpWatcher, and generateDhClientHooks: what the   *)
(* two generated scripts do to the default route of the custom tables when   *)
(* the lease of a WAN interface changes.  A table holds no default route, a  *)
(* blackhole default or a default via a gateway.                             *)

NoRoute == [ kind |-> "none" ]

BlackholeRoute == [ kind |-> "blackhole" ]

\* ip route replace default via $gateway dev $wan_interface proto static
\* src $from_ip table $table
StaticDefault(gateway, wan_interface, from_ip) ==
    [ kind |-> "via", via |-> gateway, dev |-> wan_interface, proto |-> "static",
      src |-> from_ip ]

\* add_or_replace_route of the polling watcher: a blackhole default when no
\* gateway was learned.
watcher_add_or_replace_route(routes, wan_interface, from_ip, table, gateway) ==
    IF gateway # Undefined
    THEN [routes EXCEPT ![table] = StaticDefault(gateway, wan_interface, from_ip)]
    ELSE [routes EXCEPT ![table] = BlackholeRoute]

\* update_dhcp_lease of the polling watcher: one `if [ "$interface" = ... ]`
\* block per triple, in the order of the list.
RECURSIVE update_dhcp_lease(_, _, _, _)
update_dhcp_lease(routes, pairs, interface, router) ==
    IF pairs = <<>> THEN routes
    ELSE LET pair == Head(pairs)
         IN  update_dhcp_lease(
                IF interface = pair.wanInterface
                THEN watcher_add_or_replace_route(routes, pair.wanInterface, pair.fromIp,
                                                  pair.table, router)
                ELSE routes,
                Tail(pairs), interface, router)

\* An add_or_replace_route of the hook that leaves out `src $from_ip`.
hook_add_or_replace_route_no_src(routes, wan_interface, from_ip, table, new_routers) ==
    [routes EXCEPT ![table] = StaticDefault(new_routers, wan_interface, Undefined)]

\* add_or_replace_route of the dhclient hook: the gateway is $new_routers.
hook_add_or_replace_route(routes, wan_interface, from_ip, table, new_routers) ==
    [routes EXCEPT ![table] = StaticDefault(new_routers, wan_interface, from_ip)]

RECURSIVE HookBlocks(_, _, _, _)
HookBlocks(routes, pairs, interface, new_routers) ==
    IF pairs = <<>> THEN routes
    ELSE LET pair == Head(pairs)
         IN  HookBlocks(
                IF interface = pair.wanInterface
                THEN hook_add_or_replace_route(routes, pair.wanInterface, pair.fromIp,
                                               pair.table, new_routers)
                ELSE routes,
                Tail(pairs), interface, new_routers)

\* The dhclient hook script: exit 0 when $new_routers or $interface is empty,
\* else one block per triple.
generateDhClientHooks(routes, pairs, interface, new_routers) ==
    IF new_routers = Undefined THEN routes
    ELSE IF interface = Undefined THEN routes
    ELSE HookBlocks(routes, pairs, interface, new_routers)

\* The WAN interfaces, source addresses, tables and routers of the lease events.
LeaseInterfaces == { <<"eth0">>, <<"eth0", MaxVlanId>> }

LeaseTables == { TablesStartInit, TablesStartInit + 1 }

LeaseRouters == { Ip(4, 254), Ip(4, 253) }

LeaseTriples ==
    [ wanInterface : LeaseInterfaces, fromIp : { Ip(4, 1), Ip(4, 2) }, table : LeaseTables ]

LeasePairLists ==
    UNION { [1..n -> LeaseTriples] : n \in 1..MaxPairs }

\* The lease of `interface` changes; router is the ROUTER= of the lease file and
\* $new_routers of dhclient, undefined when the lease names no router.
LeaseEvent ==
    /\ \E interface \in LeaseInterfaces, router \in LeaseRouters \cup { Undefined } :
          lease' = [ pairs |-> lease.pairs,
                     watcher |-> update_dhcp_lease(lease.watcher, lease.pairs, interface, router),
                     hook |-> generateDhClientHooks(lease.hook, lease.pairs, interface, router),
                     event |-> << interface, router >> ]
    /\ UNCHANGED <<vlans, portForwards, defaultInternet, lastOp, creating, dhcp>>
    /\ UNCHANGED passVars
    /\ UNCHANGED triggerVars

\* Both scripts are generated from the same list and start from the same tables.
InitLease ==
    /\ vlans = <<>>
    /\ portForwards = <<>>
    /\ defaultInternet = 0
    /\ lastOp = NoOp
    /\ pc = "idle"
    /\ idx = 0
    /\ tablesStart = 0
    /\ tableMaps = <<>>
    /\ dhclientPairs = <<>>
    /\ nftables = <<>>
    /\ netplan = EmptyNetplan
    /\ bringup = <<>>
    /\ needParentInterfaces = <<>>
    /\ iteration = NoIteration
    /\ files = NoFiles
    /\ units = {}
    /\ prevPass = [ pc |-> "idle", tableMaps |-> <<>>, nftables |-> <<>> ]
    /\ passes = <<>>
    /\ revision = 0
    /\ disk = NoDisk
    /\ creating = {}
    /\ dhcp = NoDhcp
    /\ \E pairs \in LeasePairLists :
          lease = [ pairs |-> pairs,
                    watcher |-> [ t \in LeaseTables |-> NoRoute ],
                    hook |-> [ t \in LeaseTables |-> NoRoute ],
                    event |-> <<>> ]

NextLease == LeaseEvent

SpecLease == InitLease /\ [][NextLease]_vars

----------------------------------------------------------------------------
(* Claims about the collection. *)

\* C1: after any sequence of creations, edits of parentInterface or vlanId and
\* releases, no two distinct networks of the collection hold the same
\* (parentInterface, vlanId) pair.
C1_PairsUnique ==
    \A i, j \in DOMAIN vlans :
        i # j => <<vlans[i].parentInterface, vlans[i].vlanId>>
                    # <<vlans[j].parentInterface, vlans[j].vlanId>>

\* C2: a createDevice call or an edit of vlanId or parentInterface whose resulting
\* pair is the pair of another existing network fails with 'VLAN ID <n> already in
\* use.' and commits nothing; a put that collides with no other network (a re-save
\* of the network's own pair included) is not rejected.
C2_CollisionRejected ==
    lastOp.op \in { "createDevice", "putVlanId", "putParentInterface" } =>
        /\ lastOp.collides =>
              lastOp.error = "VLAN ID already in use." /\ ~lastOp.committed
        /\ (lastOp.op # "createDevice" /\ ~lastOp.collides) => lastOp.error = ""

----------------------------------------------------------------------------
(* Claims about the compilation pass. *)

\* The network's pair is complete: the per-network loop does not skip it.
HasPair(v) == v.vlanId # 0 /\ v.parentInterface # Undefined

NameOf(v) == getInterfaceName(v.parentInterface, v.vlanId)

\* The iteration just finished was the one of vlans[i].
JustIterated(i) == iteration.outcome # "none" /\ iteration.nativeId = vlans[i].nativeId

\* The network has a stanza of its own in netplan.
Compiled(v) == v.nativeId \in Range(bringup)

StanzaOf(v) ==
    IF v.vlanId = 1 THEN netplan.ethernets[MapIndex(netplan.ethernets, v.parentInterface)].value
    ELSE netplan.vlans[MapIndex(netplan.vlans, NameOf(v))].value

AllStanzas ==
    { netplan.ethernets[k].value : k \in DOMAIN netplan.ethernets }
        \cup { netplan.vlans[k].value : k \in DOMAIN netplan.vlans }

\* The fragment names the interface in one of its rules.
Mentions(fragment, interfaceName) ==
    /\ fragment.layout # "flush"
    /\ \E k \in DOMAIN fragment.rules :
          fragment.rules[k].iif = interfaceName \/ fragment.rules[k].oif = interfaceName

\* C3: for every configuration of the collection, a pass never aborts in the
\* per-network stage; it always reaches the writing of the artifacts.
C3_PassNeverAborts == pc # "aborted"

\* C4: in a pass that has run to its end, a network missing its VLAN ID or its
\* parent interface has no stanza, is not in the bring-up set, no policy rule of
\* any stanza is from one of its addresses, and no firewall fragment names its
\* interface; every sibling with a complete pair has its stanza.
C4_SkippedProducesNothing ==
    pc = "done" =>
        \A i \in DOMAIN vlans :
            IF HasPair(vlans[i]) THEN Compiled(vlans[i])
            ELSE /\ ~Compiled(vlans[i])
                 /\ ~MapHas(netplan.vlans, NameOf(vlans[i]))
                 /\ \A st \in AllStanzas :
                       "routingPolicy" \in DOMAIN st =>
                           \A k \in DOMAIN st.routingPolicy :
                               st.routingPolicy[k].from \notin Range(vlans[i].addresses)
                 /\ \A k \in DOMAIN nftables : ~Mentions(nftables[k], NameOf(vlans[i]))

\* C5: the iteration of a network with a complete pair, Manual address mode and
\* an empty address list ends in a skip (no stanza) with the warning 'Address is
\* unconfigured.'.
C5_UnconfiguredSkipped ==
    \A i \in DOMAIN vlans :
        ( /\ JustIterated(i)
          /\ HasPair(vlans[i])
          /\ vlans[i].addressMode = "Manual"
          /\ vlans[i].addresses = <<>> )
        => /\ iteration.outcome = "skipped"
           /\ "Address is unconfigured." \in iteration.warnings
           /\ ~Compiled(vlans[i])

\* C6: a pass over the same ordered collection ends with the same interface name
\* to table id mapping as the pass before it.
C6_SameTablesEveryPass ==
    (pc \in { "done", "aborted" } /\ prevPass.pc # "idle") =>
        /\ prevPass.pc = pc
        /\ tableMaps = prevPass.tableMaps

\* C6 witness: a second complete pass over a collection that uses two tables.
C6_Witness ==
    pc = "done" /\ prevPass.pc = "done" /\ Len(tableMaps) = MaxNets

\* C7: within a pass the ids handed out are 100, 101, ... in order of first use,
\* one per interface name; a call with a known name returns the id it has and
\* allocates nothing; the table an iteration works with is never 0.
C7_TableIds ==
    pc # "idle" =>
        /\ \A k \in DOMAIN tableMaps : tableMaps[k].value = 99 + k
        /\ \A j, k \in DOMAIN tableMaps : j # k => tableMaps[j].key # tableMaps[k].key
        /\ tablesStart = 100 + Len(tableMaps)
        /\ \A k \in DOMAIN tableMaps :
              LET again == ensureTable([tablesStart |-> tablesStart, tableMaps |-> tableMaps],
                                       tableMaps[k].key)
              IN  /\ again.table = tableMaps[k].value
                  /\ again.tableMaps = tableMaps
                  /\ again.tablesStart = tablesStart
        /\ iteration.outcome \in { "emitted", "threw" } =>
              /\ iteration.table # 0
              /\ iteration.table = TableGet(tableMaps, iteration.interfaceName)

\* C7 witness: the second network's own call finds the id 101 that the first
\* network's gateway lookup allocated for it.
C7_Witness ==
    /\ Len(vlans) >= 2
    /\ JustIterated(2)
    /\ iteration.outcome = "emitted"
    /\ vlans[1].internet = iteration.interfaceName
    /\ iteration.table = 101
    /\ tablesStart = 102

\* The case of C8: vlans[i] has just been compiled, its address mode is Manual
\* and its gatewayMode is Disabled.
IsolatedCompiled(i) ==
    /\ JustIterated(i)
    /\ iteration.outcome = "emitted"
    /\ vlans[i].addressMode = "Manual"
    /\ vlans[i].gatewayMode = "Disabled"

\* C8 as stated: with no gateway4 and gateway6 stored, the only route with the
\* network's own table is the blackhole default route to 0.0.0.0/0.
C8_OnlyBlackhole ==
    \A i \in DOMAIN vlans :
        (IsolatedCompiled(i) /\ vlans[i].gateway4 = Undefined /\ vlans[i].gateway6 = Undefined)
        => \A k \in DOMAIN iteration.routes :
              iteration.routes[k].table = <<iteration.table>> =>
                  /\ iteration.routes[k].type = "blackhole"
                  /\ iteration.routes[k].to = ipv4Default

\* C8: the route set of a Manual-address network with gatewayMode Disabled
\* (whatever gateway4 or gateway6 is left stored) is the blackhole default route
\* to 0.0.0.0/0 in its own table, followed by one link-scope route per configured
\* address in the same table; no route has a gateway.
C8_BlackholeAndLinkRoutes ==
    \A i \in DOMAIN vlans :
        IsolatedCompiled(i) =>
            /\ Len(iteration.routes) = 1 + Len(vlans[i].addresses)
            /\ iteration.routes[1].type = "blackhole"
            /\ iteration.routes[1].to = ipv4Default
            /\ \A k \in DOMAIN iteration.routes :
                  /\ iteration.routes[k].table = <<iteration.table>>
                  /\ iteration.routes[k].via = Undefined
                  /\ k > 1 => /\ iteration.routes[k].scope = "link"
                              /\ iteration.routes[k].type = ""
                              /\ iteration.routes[k].to = vlans[i].addresses[k - 1]

\* C8 witness: an isolated network with addresses and a stale gateway4.
C8_Witness ==
    \E i \in DOMAIN vlans :
        /\ IsolatedCompiled(i)
        /\ vlans[i].gateway4 # Undefined
        /\ Len(iteration.routes) > 1

\* C9: once the iteration of a Manual-address network with gatewayMode Manual,
\* gateway4 set and an IPv4 address is over, the network is compiled, its routes
\* have no blackhole default, and one of them is to 0.0.0.0/0 via gateway4 in the
\* network's own table.
C9_ManualGatewayRoute ==
    \A i \in DOMAIN vlans :
        ( /\ JustIterated(i)
          /\ HasPair(vlans[i])
          /\ vlans[i].addressMode = "Manual"
          /\ vlans[i].gatewayMode = "Manual"
          /\ vlans[i].gateway4 # Undefined
          /\ \E k \in DOMAIN vlans[i].addresses : isIPv4(BareIp(vlans[i].addresses[k])) )
        => /\ iteration.outcome = "emitted"
           /\ \A k \in DOMAIN iteration.routes : iteration.routes[k].type # "blackhole"
           /\ \E k \in DOMAIN iteration.routes :
                 /\ iteration.routes[k].to = ipv4Default
                 /\ iteration.routes[k].via = vlans[i].gateway4
                 /\ iteration.routes[k].table = <<iteration.table>>

\* The gateway of vlans[i] resolves to another managed network: address mode
\* Manual, gatewayMode not Disabled, no manual gateway in effect, and internet
\* names another network of the collection.  The value is that network's index,
\* 0 when the gateway does not resolve so.
GatewayNetwork(i) ==
    LET v == vlans[i]
        j == FindInternetVlan(v.internet)
    IN  IF /\ HasPair(v)
           /\ v.addressMode = "Manual"
           /\ v.gatewayMode # "Disabled"
           /\ ~(v.gatewayMode = "Manual" /\ (v.gateway4 # Undefined \/ v.gateway6 # Undefined))
           /\ j # i
        THEN j ELSE 0

\* C10: a compiled network whose gateway resolves to another managed network has
\* no blackhole default route, and for each of its addresses a from-rule of
\* priority 2 whose table is the gateway network's table: the id tableMaps holds
\* for the gateway's name, which is the table of every private-table route of the
\* gateway's own stanza and of the priority-1 rule of each of its addresses once
\* that stanza exists, whichever of the two was iterated first.
C10_GatewayTable ==
    \A i \in DOMAIN vlans :
        (GatewayNetwork(i) # 0 /\ Compiled(vlans[i])) =>
            LET v == vlans[i]
                g == vlans[GatewayNetwork(i)]
                t == TableGet(tableMaps, NameOf(g))
                st == StanzaOf(v)
            IN  /\ t # 0
                /\ \A k \in DOMAIN st.routes : st.routes[k].type # "blackhole"
                /\ \A a \in DOMAIN v.addresses :
                      \E k \in DOMAIN st.routingPolicy :
                          /\ st.routingPolicy[k].priority = 2
                          /\ st.routingPolicy[k].from \in { v.addresses[a], BareIp(v.addresses[a]) }
                          /\ st.routingPolicy[k].table = <<t>>
                /\ \A k \in DOMAIN st.routingPolicy :
                      st.routingPolicy[k].priority = 2 => st.routingPolicy[k].table = <<t>>
                /\ Compiled(g) =>
                      /\ \A k \in DOMAIN StanzaOf(g).routes :
                            StanzaOf(g).routes[k].table \in { <<t>>, Undefined }
                      /\ \A a \in DOMAIN StanzaOf(g).addresses :
                            \E k \in DOMAIN StanzaOf(g).routingPolicy :
                                /\ StanzaOf(g).routingPolicy[k].priority = 1
                                /\ StanzaOf(g).routingPolicy[k].from = BareIp(StanzaOf(g).addresses[a])
                                /\ StanzaOf(g).routingPolicy[k].table = <<t>>

\* C10 witness: the network iterated first has addresses and resolves its gateway
\* to the second; both are compiled, and the gateway's stanza has routes and
\* rules in its table.
C10_Witness ==
    /\ pc = "done"
    /\ Len(vlans) >= 2
    /\ GatewayNetwork(1) = 2
    /\ vlans[1].addresses # <<>>
    /\ Compiled(vlans[1])
    /\ Compiled(vlans[2])
    /\ StanzaOf(vlans[2]).routes # <<>>
    /\ StanzaOf(vlans[2]).routingPolicy # <<>>

----------------------------------------------------------------------------
(* Claims about gateway resolution and the firewall fragments. *)

\* The gateway of vlans[i] is looked up and not found: address mode Manual,
\* gatewayMode not Disabled, no manual gateway in effect, and no network of the
\* collection has the name the internet setting holds.
GatewayNotFound(i) ==
    LET v == vlans[i]
    IN  /\ HasPair(v)
        /\ v.addressMode = "Manual"
        /\ v.gatewayMode # "Disabled"
        /\ ~(v.gatewayMode = "Manual" /\ (v.gateway4 # Undefined \/ v.gateway6 # Undefined))
        /\ \A j \in DOMAIN vlans : NameOf(vlans[j]) # v.internet

\* C11: the iteration of a network whose gateway is not found among the current
\* networks logs the warning and adds nothing to the firewall fragments and to
\* the DHCP-hook triples; the network's routes are the blackhole default followed
\* by its link-scope routes (none has a gateway) and none of its policy rules has
\* priority 2.
C11_GatewayNotFound ==
    [][ ( /\ pc = "loop"
          /\ idx \in DOMAIN vlans
          /\ GatewayNotFound(idx)
          /\ idx' = idx + 1 )
        => /\ iteration'.outcome = "emitted"
           /\ "Internet interface not found or is not managed directly." \in iteration'.warnings
           /\ nftables' = nftables
           /\ dhclientPairs' = dhclientPairs
           /\ iteration'.routes # <<>>
           /\ iteration'.routes[1].type = "blackhole"
           /\ iteration'.routes[1].table = <<iteration'.table>>
           /\ \A k \in DOMAIN iteration'.routes : iteration'.routes[k].via = Undefined
           /\ \A k \in DOMAIN iteration'.routingPolicy :
                 iteration'.routingPolicy[k].priority # 2 ]_vars

\* C11 witness: a network with an address whose internet setting names a tagged
\* interface that no network has, just compiled, while another network exists.
C11_Witness ==
    \E i \in DOMAIN vlans :
        /\ JustIterated(i)
        /\ iteration.outcome = "emitted"
        /\ GatewayNotFound(i)
        /\ vlans[i].internet # Undefined
        /\ vlans[i].addresses # <<>>
        /\ Len(vlans) > 1

\* The text addWanGateway is to add for (family, wan, lan): the masquerade on the
\* wan interface, and the forward fragment with lan -> wan accepted and wan -> lan
\* accepted for established and related connections only.
ExpectedMasquerade(family, wan) ==
    Fragment("table", family, "nat", "postrouting_scrypted",
             << Rule(Undefined, wan, "", Undefined, "", "", "masquerade", Undefined) >>)

ExpectedForwardPair(family, wan, lan) ==
    Fragment("table", family, "filter", "forward_scrypted",
             << Rule(lan, wan, "", Undefined, "", "", "accept", Undefined),
                Rule(wan, lan, "ct state established,related", Undefined, "", "",
                     "accept", Undefined) >>)

\* C12: once a network whose gateway resolves to another managed network is
\* compiled, the fragments hold the IPv4 masquerade on the gateway's interface and
\* the IPv4 forward pair for (gateway interface, this interface); the IPv6 forward
\* pair is there exactly when the VLAN IDs of the two networks differ, then with
\* the IPv6 masquerade; a finished pass has written these fragments.
C12_NatGatewayPair ==
    /\ \A i \in DOMAIN vlans :
          (GatewayNetwork(i) # 0 /\ Compiled(vlans[i])) =>
              LET wan == NameOf(vlans[GatewayNetwork(i)])
                  lan == NameOf(vlans[i])
                  differ == vlans[i].vlanId # vlans[GatewayNetwork(i)].vlanId
              IN  /\ ExpectedMasquerade("ip", wan) \in Range(nftables)
                  /\ ExpectedForwardPair("ip", wan, lan) \in Range(nftables)
                  /\ ExpectedForwardPair("ip6", wan, lan) \in Range(nftables) <=> differ
                  /\ differ => ExpectedMasquerade("ip6", wan) \in Range(nftables)
    /\ pc = "done" => files.nftables = <<nftables>>

\* C12 witness: a finished pass with a LAN on eth1 behind the untagged uplink on
\* eth0 (same VLAN ID): the IPv4 pair is written, the IPv6 forward pair is not.
C12_Witness ==
    /\ pc = "done"
    /\ \E i \in DOMAIN vlans :
          /\ GatewayNetwork(i) # 0
          /\ vlans[i].parentInterface = <<"eth1">>
          /\ vlans[GatewayNetwork(i)].type = "Internet"
          /\ vlans[i].vlanId = vlans[GatewayNetwork(i)].vlanId
          /\ ExpectedForwardPair("ip", <<"eth0">>, <<"eth1">>) \in Range(files.nftables[1])
          /\ ExpectedForwardPair("ip6", <<"eth0">>, <<"eth1">>) \notin Range(files.nftables[1])

\* C13: a finished pass that follows a finished pass over the same input has the
\* same fragments in the same order after the leading flush block, and has
\* written them to the firewall file.
C13_SameFirewallEveryPass ==
    (pc = "done" /\ prevPass.pc = "done") =>
        /\ Head(nftables) = FlushFragment
        /\ Head(prevPass.nftables) = FlushFragment
        /\ Tail(nftables) = Tail(prevPass.nftables)
        /\ files.nftables = <<nftables>>

\* C13 witness: a second finished pass whose firewall text has gateway and
\* port-forward fragments after the flush block.
C13_Witness ==
    /\ pc = "done"
    /\ prevPass.pc = "done"
    /\ \E k \in DOMAIN nftables : nftables[k].chain = "prerouting_scrypted"
    /\ \E k \in DOMAIN nftables :
          nftables[k].chain = "forward_scrypted" /\ Len(nftables[k].rules) = 2

\* The rules of the fragments, as <<fragment index, rule index>>, that come in on
\* the interface with the verdict.
RulesOn(interfaceName, verdict) ==
    { kj \in UNION { { <<k, j>> : j \in DOMAIN nftables[k].rules } :
                       k \in { f \in DOMAIN nftables : nftables[f].layout # "flush" } } :
        /\ nftables[kj[1]].rules[kj[2]].iif = interfaceName
        /\ nftables[kj[1]].rules[kj[2]].verdict = verdict }

\* C14: once the network of a complete `tcp + udp` port forward is compiled, the
\* fragments hold one forward-accept rule to the destination and one DNAT rule on
\* the network's interface, each with the single expression that matches both
\* protocols.
C14_DualProtocolRule ==
    \A p \in DOMAIN portForwards :
        \A i \in DOMAIN vlans :
            ( /\ portForwards[p].protocol = "tcp + udp"
              /\ PortForwardComplete(portForwards[p])
              /\ portForwards[p].providerId = vlans[i].nativeId
              /\ Compiled(vlans[i]) )
            => LET pf == portForwards[p]
                   accepts == { kj \in RulesOn(NameOf(vlans[i]), "accept") :
                                  nftables[kj[1]].rules[kj[2]].daddr = pf.dstIp }
                   dnats == RulesOn(NameOf(vlans[i]), "dnat")
               IN  /\ Cardinality(accepts) = 1
                   /\ Cardinality(dnats) = 1
                   /\ \A kj \in accepts :
                         /\ nftables[kj[1]].rules[kj[2]].proto = "meta l4proto { tcp, udp } th"
                         /\ nftables[kj[1]].rules[kj[2]].dport = pf.dstPort
                   /\ \A kj \in dnats :
                         /\ nftables[kj[1]].rules[kj[2]].proto = "meta l4proto { tcp, udp } th"
                         /\ nftables[kj[1]].rules[kj[2]].dport = pf.srcPort
                         /\ nftables[kj[1]].rules[kj[2]].to = <<pf.dstIp, pf.dstPort>>

\* C14 witness: a finished pass over an uplink with a static address, a
\* `tcp + udp` port forward and a LAN behind it (hairpin rules are there too).
C14_Witness ==
    /\ pc = "done"
    /\ \E p \in DOMAIN portForwards : portForwards[p].protocol = "tcp + udp"
    /\ \E k \in DOMAIN nftables : nftables[k].layout = "indented table"

\* C15: no forward-accept to a destination and no DNAT fragment is emitted when
\* every port forward has the protocol http(s), whatever its port and address
\* fields hold.
C15_NoPacketRulesForHttps ==
    (\A p \in DOMAIN portForwards : portForwards[p].protocol = "http(s)") =>
        \A k \in DOMAIN nftables :
            nftables[k].layout # "flush" =>
                /\ nftables[k].chain # "prerouting_scrypted"
                /\ \A j \in DOMAIN nftables[k].rules : nftables[k].rules[j].daddr = Undefined


----------------------------------------------------------------------------
(* Claims about the calls of regenerateInterfaces, under SpecTriggers. *)

\* Call p has started and has neither returned nor rejected.
InFlight(p) == passes[p].stage \notin { "finished", "rejected" }

\* C16: at most one compilation pass is in flight at any time: a pass runs to
\* completion before the next trigger (the constructor's pass, or an 'Apply
\* Changes' press) is processed.
C16_AtMostOneInFlight ==
    Cardinality({ p \in DOMAIN passes : InFlight(p) }) <= 1

\* C17: last full write wins: once every triggered pass has finished, the
\* interface document, the watcher script and the firewall file all hold the
\* output of one and the same pass, the most recently started one.
C17_LastFullWriteWins ==
    (\A p \in DOMAIN passes : passes[p].stage = "finished")
        => /\ disk.netplan = Written(Len(passes))
           /\ disk.watcher = Written(Len(passes))
           /\ disk.nftables = Written(Len(passes))

IsPrefix(s, t) == Len(s) <= Len(t) /\ \A i \in DOMAIN s : s[i] = t[i]

Times(n, x) == [ i \in 1..n |-> x ]

\* The order of the claim as written: the bring-up after the firewall load.
BringUpLastOrder(n) ==
    << "flushChains", "perNetwork", "parentCompletion", "writeNetplan", "netplanApply",
       "writeWatcher", "restartWatcher", "writeNftables", "loadNftables" >>
    \o Times(n, "bringUp")

\* The bring-up of each network between the renderer apply and the watcher write.
BringUpAfterApplyOrder(n) ==
    << "flushChains", "perNetwork", "parentCompletion", "writeNetplan", "netplanApply" >>
    \o Times(n, "bringUp")
    \o << "writeWatcher", "restartWatcher", "writeNftables", "loadNftables" >>

\* C18 as written: the stages of a pass are strictly ordered flush, per-network
\* pass, parent completion, interface document write, renderer apply, watcher
\* script write, watcher restart, firewall write, firewall load, and only after
\* all of that the bring-up of the bring-up set.
C18_BringUpAfterLoad ==
    \A p \in DOMAIN passes :
        IsPrefix(passes[p].steps, BringUpLastOrder(Len(passes[p].set)))

\* C18 amended: the stages of a pass are strictly ordered flush, per-network
\* pass, parent completion, interface document write, renderer apply, then the
\* bring-up of each network of the bring-up set, and only then watcher script
\* write, watcher restart, firewall write, firewall load.
C18_BringUpAfterApply ==
    \A p \in DOMAIN passes :
        IsPrefix(passes[p].steps, BringUpAfterApplyOrder(Len(passes[p].set)))

\* A pass with a bring-up set of two networks has gone through every stage.
C18_Witness ==
    \E p \in DOMAIN passes :
        /\ passes[p].stage = "finished"
        /\ Len(passes[p].set) = 2
        /\ passes[p].steps = BringUpAfterApplyOrder(2)

\* C19: bring-up fails independently per network: when the service sync of one
\* network fails, by a non-zero exit or by a thrown error, every other network of
\* the bring-up set is still brought up and the remaining artifacts of the pass
\* are still written.
C19_BringUpIndependent ==
    \A p \in DOMAIN passes :
        (passes[p].failure # "none" /\ ~InFlight(p))
            => /\ passes[p].brought = Len(passes[p].set)
               /\ \E i \in DOMAIN passes[p].steps : passes[p].steps[i] = "writeWatcher"
               /\ \E i \in DOMAIN passes[p].steps : passes[p].steps[i] = "writeNftables"

----------------------------------------------------------------------------
(* Claims about the interface document, under SpecPass. *)

\* C20: in every emitted interface document each VLAN stanza's link has its own
\* stanza under ethernets; when no VLAN-ID-1 network defines that parent, the
\* stanza added for it is the minimal one with dhcp4 and dhcp6 false and optional
\* set; a stanza defined by a VLAN-ID-1 network is never replaced by it.
C20_ParentStanzas ==
    pc = "done" =>
        LET doc == files.netplan[1] IN
        \A v \in DOMAIN doc.vlans :
            LET link == doc.vlans[v].value.link IN
            /\ MapHas(doc.ethernets, link)
            /\ LET st == doc.ethernets[MapIndex(doc.ethernets, link)].value IN
               IF \E i \in DOMAIN vlans :
                      vlans[i].vlanId = 1 /\ vlans[i].parentInterface = link
               THEN "addresses" \in DOMAIN st
               ELSE /\ "dhcp4" \in DOMAIN st /\ st.dhcp4 = "false"
                    /\ "dhcp6" \in DOMAIN st /\ st.dhcp6 = "false"
                    /\ "optional" \in DOMAIN st /\ st.optional = "true"

----------------------------------------------------------------------------
(* Claims about the firewall text and the routing of a pass, under SpecPass. *)

\* The chain a fragment adds rules to.
ChainOf(fragment) == << fragment.family, fragment.table, fragment.chain >>

\* C21: in the firewall text of every pass the flush block is emitted exactly
\* once and is the first fragment, and it flushes every chain that any later
\* fragment of the pass adds rules to.
C21_FlushFirstAndComplete ==
    pc \in { "loop", "done" } =>
        /\ nftables # <<>>
        /\ nftables[1].layout = "flush"
        /\ \A k \in DOMAIN nftables :
              k > 1 => /\ nftables[k].layout # "flush"
                       /\ ChainOf(nftables[k]) \in Range(nftables[1].rules)
        /\ pc = "done" => files.nftables = << nftables >>

\* A written firewall text with a masquerade, a forward and a DNAT fragment.
C21_Witness ==
    /\ pc = "done"
    /\ \A chain \in { "postrouting_scrypted", "forward_scrypted", "prerouting_scrypted" } :
          \E k \in DOMAIN files.nftables[1] :
              k > 1 /\ files.nftables[1][k].chain = chain

\* C22: a network whose gateway mode is Manual, which includes every Internet-typed
\* network, never has an upstream gateway network resolved for it: its iteration
\* gives it no priority-2 policy rule, adds no NAT-gateway firewall pair with it
\* as the LAN and adds no DHCP-hook triple, whatever its 'internet' setting holds.
C22_ManualNeverResolves ==
    [][ ( /\ pc = "loop"
          /\ idx \in DOMAIN vlans
          /\ vlans[idx].gatewayMode = "Manual"
          /\ idx' = idx + 1
          /\ iteration'.outcome = "emitted" )
        => /\ \A k \in DOMAIN iteration'.routingPolicy :
                 iteration'.routingPolicy[k].priority # 2
           /\ \A ip \in { "ip", "ip6" }, j \in DOMAIN vlans :
                 WanGatewayFragment(ip, NameOf(vlans[j]), iteration'.interfaceName)
                    \notin (Range(nftables') \ Range(nftables))
           /\ dhclientPairs' = dhclientPairs ]_vars

C24_HairpinAlways ==
    pc = "done" =>
        \A p \in DOMAIN portForwards, w, l \in DOMAIN vlans :
            LET pf == portForwards[p]
                lan == NameOf(vlans[l])
            IN  ( /\ PortForwardComplete(pf)
                  /\ pf.providerId = vlans[w].nativeId
                  /\ Compiled(vlans[w])
                  /\ Compiled(vlans[l])
                  /\ vlans[l] \in Range(LocalNetworksOf(NameOf(vlans[w]))) )
                => /\ \E k \in DOMAIN files.nftables[1] :
                         LET f == files.nftables[1][k]
                         IN  /\ f.chain = "forward_scrypted"
                             /\ \E r \in DOMAIN f.rules :
                                   /\ f.rules[r].iif = lan
                                   /\ f.rules[r].daddr = pf.dstIp
                                   /\ f.rules[r].dport = pf.dstPort
                                   /\ f.rules[r].verdict = "accept"
                   /\ \E k \in DOMAIN files.nftables[1] :
                         LET f == files.nftables[1][k]
                         IN  /\ f.chain = "prerouting_scrypted"
                             /\ \E r \in DOMAIN f.rules :
                                   /\ f.rules[r].iif = lan
                                   /\ f.rules[r].dport = pf.srcPort
                                   /\ f.rules[r].verdict = "dnat"
                                   /\ f.rules[r].to = << pf.dstIp, pf.dstPort >>

----------------------------------------------------------------------------
(* Claims about the two DHCP-hook scripts, under SpecLease. *)

\* C25 as written: the polling watcher and the lease event hook made from the same
\* list of triples are equivalent: after every lease event, with or without a
\* learned gateway, both leave the same default route in each table.
C25_SameRoutes ==
    \A t \in DOMAIN lease.watcher : lease.watcher[t] = lease.hook[t]

\* C25 amended: after a lease event that carries a learned gateway, both scripts
\* leave the same default route in each table paired with the event's interface:
\* the route via that gateway on the interface.
C25_SameRoutesWithGateway ==
    (lease.event # <<>> /\ lease.event[2] # Undefined) =>
        \A k \in DOMAIN lease.pairs :
            lease.pairs[k].wanInterface = lease.event[1] =>
                /\ lease.watcher[lease.pairs[k].table] = lease.hook[lease.pairs[k].table]
                /\ lease.watcher[lease.pairs[k].table].kind = "via"
                /\ lease.watcher[lease.pairs[k].table].via = lease.event[2]
                /\ lease.watcher[lease.pairs[k].table].dev = lease.event[1]

\* A lease event with a gateway on an interface with two triples, after an event
\* without gateway on the other interface left the two scripts' tables different.
C25_Witness ==
    /\ lease.event # <<>>
    /\ lease.event[2] # Undefined
    /\ Len(lease.pairs) = 2
    /\ lease.pairs[1].wanInterface = lease.event[1]
    /\ lease.pairs[2].wanInterface # lease.event[1]
    /\ lease.watcher[lease.pairs[2].table] # lease.hook[lease.pairs[2].table]
    /\ lease.watcher[lease.pairs[1].table].kind = "via"

----------------------------------------------------------------------------
(* Claims about passes over stacked interfaces, several port forwards and   *)
(* edited settings, under SpecEdits.                                        *)

\* C26: within one pass, compiled networks with distinct (parentInterface,
\* vlanId) pairs have distinct interface names, so no two of them share a
\* routing-table id.
C26_DistinctNames ==
    pc \in { "loop", "done" } =>
        \A i, j \in DOMAIN vlans :
            ( /\ i # j
              /\ Compiled(vlans[i])
              /\ Compiled(vlans[j])
              /\ << vlans[i].parentInterface, vlans[i].vlanId >>
                    # << vlans[j].parentInterface, vlans[j].vlanId >> )
            => /\ NameOf(vlans[i]) # NameOf(vlans[j])
               /\ TableGet(tableMaps, NameOf(vlans[i])) # TableGet(tableMaps, NameOf(vlans[j]))

\* C28: no stanza's routing-policy list contains the same rule twice, however
\* many port forwards the gateway network has.
C28_NoDuplicateRule ==
    \A st \in AllStanzas :
        "routingPolicy" \in DOMAIN st =>
            \A a, b \in DOMAIN st.routingPolicy :
                a # b => st.routingPolicy[a] # st.routingPolicy[b]

\* C29: after a pass has completed, a network that the pass skipped (VLAN ID or
\* parent interface missing) has no DHCP-server unit, also when an earlier pass
\* installed one for it.
C29_NoUnitForSkipped ==
    [][ (pc = "loop" /\ pc' = "done") =>
            \A i \in DOMAIN vlans :
                ~HasPair(vlans[i]) => vlans[i].nativeId \notin units' ]_vars

----------------------------------------------------------------------------
(* Claims about overlapping createDevice calls, under SpecOverlap. *)

\* C27: the (parentInterface, vlanId) pair stays unique under overlapping calls:
\* a createDevice call that resumes from its await when a network with its pair
\* exists does not succeed, so two calls for the same pair never both succeed.
C27_OverlapCannotBothSucceed ==
    [][ \A call \in creating :
            ( /\ call \notin creating'
              /\ PairTaken(vlans, call.parentInterface, call.vlanId, 0) )
            => /\ lastOp'.error # ""
               /\ \A i \in DOMAIN vlans' :
                     vlans'[i].nativeId = call.nativeId =>
                        << vlans'[i].parentInterface, vlans'[i].vlanId >>
                            # << call.parentInterface, call.vlanId >> ]_vars

----------------------------------------------------------------------------
(* Claims about the default DHCP ranges, under SpecRanges. *)

\* C30: for a first address a.b.c.d with d in 0..255 every default range is well
\* formed, with start <= end and both host octets within 1..254, and no range
\* contains the network's own address d.
C30_DefaultRangesWellFormed ==
    \A k \in DOMAIN dhcp.ranges :
        LET r == dhcp.ranges[k]
            d == dhcp.address[2]
        IN  /\ r.start <= r.end
            /\ r.start \in 1..254
            /\ r.end \in 1..254
            /\ ~(r.start <= d /\ d <= r.end)
====
